---- MODULE Spec2Model ----
(***************************************************************************)
(* Vidyaverse backend (src/backend/server.py): the document store, the     *)
(* JWT authentication, the language-model pass-through with its fallbacks  *)
(* and the request handlers, as a state machine.  A handler runs to        *)
(* completion in one step; the answer of the last request is kept in resp. *)
(* register and create_reading_session are also given await by await, for  *)
(* requests that overlap: inflight holds, for each client connection, the  *)
(* request that is suspended at an await.                                  *)
(***************************************************************************)
EXTENDS Integers, Sequences, FiniteSets, TLC

VARIABLES users, books, reading_sessions, recommendations, textbooks, now, resp,
          inflight

vars == <<users, books, reading_sessions, recommendations, textbooks, now, resp, inflight>>
store == <<users, books, reading_sessions, recommendations, textbooks>>

(***************************************************************************)
(* Bounds of the model.                                                    *)
(***************************************************************************)
\* Days the clock of the authentication scenario runs.
MaxTime == 8
\* Books in the store.
MaxBooks == 2
\* Books in the store of the analysis scenario and of the one with every route.
MaxFewBooks == 1
\* Stored recommendations.
MaxRecs == 1
\* The days the clock runs in the reading scenario.
MaxClock == 1
\* The books of the large library.
MaxManyBooks == 32

(***************************************************************************)
(* Python / JSON values.  A value whose type the code does not fix (an     *)
(* Optional field, anything json.loads returns) carries its type tag.      *)
(***************************************************************************)
JNull == [t |-> "null"]
JStr(s) == [t |-> "str", s |-> s]
JNum(n) == [t |-> "num", n |-> n]
JArr(a) == [t |-> "arr", a |-> a]
JObj(o) == [t |-> "obj", o |-> o]
EmptyObj == JObj([k \in {} |-> JNull])

\* Python truth value of a value (`x or y`, `if x`, `not x`).
Truthy(v) ==
  CASE v.t = "null" -> FALSE
    [] v.t = "str" -> v.s # ""
    [] v.t = "num" -> v.n # 0
    [] v.t = "arr" -> Len(v.a) > 0
    [] v.t = "obj" -> DOMAIN v.o # {}

\* Python `a or b`.
Or(a, b) == IF Truthy(a) THEN a ELSE b

\* dict.get(key, default); raises AttributeError on a value that is no dict.
HasGet(v) == v.t = "obj"
Get(v, key, default) == IF key \in DOMAIN v.o THEN v.o[key] ELSE default

\* pydantic's check of a field declared Optional[str] / str / List[str] / Dict.
IsStr(v) == v.t = "str"
IsOptStr(v) == v.t \in {"null", "str"}
IsStrList(v) == v.t = "arr" /\ \A i \in DOMAIN v.a : v.a[i].t = "str"
IsOptDict(v) == v.t \in {"null", "obj"}

Range(f) == {f[i] : i \in DOMAIN f}
Min(a, b) == IF a < b THEN a ELSE b

(***************************************************************************)
(* Strings.  Chars spells the strings whose characters the code looks at.  *)
(***************************************************************************)
Chars(s) ==
  CASE s = "Algebra" -> <<"A", "l", "g", "e", "b", "r", "a">>
    [] s = "algebra" -> <<"a", "l", "g", "e", "b", "r", "a">>
    [] s = "Atoms" -> <<"A", "t", "o", "m", "s">>
    [] s = "atoms" -> <<"a", "t", "o", "m", "s">>
    [] s = "Polya" -> <<"P", "o", "l", "y", "a">>
    [] s = "polya" -> <<"p", "o", "l", "y", "a">>
    [] s = "b1" -> <<"b", "1">>
    [] s = "Sets and numbers" -> <<"S", "e", "t", "s", " ", "a", "n", "d", " ", "n", "u", "m", "b", "e", "r", "s">>
    [] s = "sets" -> <<"s", "e", "t", "s">>
    [] s = "Science" -> <<"S", "c", "i", "e", "n", "c", "e">>
    [] s = "Mathematics" -> <<"M", "a", "t", "h", "e", "m", "a", "t", "i", "c", "s">>
    [] s = "General" -> <<"G", "e", "n", "e", "r", "a", "l">>
    [] s = "General Education" -> <<"G", "e", "n", "e", "r", "a", "l", " ", "E", "d", "u", "c", "a", "t", "i", "o", "n">>
    [] s = " \n" -> <<" ", "\n">>
    [] s = "\n" -> <<"\n">>
    [] s = "Sets and numbers\n" -> <<"S", "e", "t", "s", " ", "a", "n", "d", " ", "n", "u", "m", "b", "e", "r", "s", "\n">>
    [] s = "Algebra\n" -> <<"A", "l", "g", "e", "b", "r", "a", "\n">>
    [] s = "Could not extract text from PDF" -> <<"C", "o", "u", "l", "d", " ", "n", "o", "t", " ", "e", "x", "t", "r", "a", "c", "t", " ", "t", "e", "x", "t", " ", "f", "r", "o", "m", " ", "P", "D", "F">>
    [] s = "<1000 spaces>algebra"
         -> [i \in 1..1007 |-> IF i <= 1000 THEN " "
                                ELSE <<"a", "l", "g", "e", "b", "r", "a">>[i - 1000]]
    [] s = "" -> <<>>

Texts == {"Algebra", "algebra", "Atoms", "atoms", "Polya", "polya", ""}

LowerChar(c) ==
  CASE c = "A" -> "a"
    [] c = "B" -> "b"
    [] c = "C" -> "c"
    [] c = "D" -> "d"
    [] c = "E" -> "e"
    [] c = "F" -> "f"
    [] c = "G" -> "g"
    [] c = "H" -> "h"
    [] c = "I" -> "i"
    [] c = "J" -> "j"
    [] c = "K" -> "k"
    [] c = "L" -> "l"
    [] c = "M" -> "m"
    [] c = "N" -> "n"
    [] c = "O" -> "o"
    [] c = "P" -> "p"
    [] c = "Q" -> "q"
    [] c = "R" -> "r"
    [] c = "S" -> "s"
    [] c = "T" -> "t"
    [] c = "U" -> "u"
    [] c = "V" -> "v"
    [] c = "W" -> "w"
    [] c = "X" -> "x"
    [] c = "Y" -> "y"
    [] c = "Z" -> "z"
    [] OTHER -> c

LowerSeq(cs) == [i \in DOMAIN cs |-> LowerChar(cs[i])]

\* str.lower()
Lower(s) == CHOOSE x \in Texts : Chars(x) = LowerSeq(Chars(s))

(***************************************************************************)
(* Passwords and tokens.                                                   *)
(***************************************************************************)
JWT_SECRET == "vidyaverse_secret_key_2025"
JWT_EXPIRATION_TIME == 7

\* bcrypt.hashpw(password, gensalt()): the hash holds the salt it was made with.
hash_password(password, salt) == [alg |-> "bcrypt", salt |-> salt, of |-> password]

\* Faulty variant: a check that accepts every password.
verify_password_any(password, hashed_password) == TRUE

\* bcrypt.checkpw: re-hash the candidate with the stored salt and compare.
verify_password(password, hashed_password) ==
  hash_password(password, hashed_password.salt) = hashed_password

\* jwt.encode(payload, key): the signature is made with the key.
jwt_encode(payload, key) == [payload |-> payload, sig |-> key]

create_access_token(user_id, t) ==
  jwt_encode([user_id |-> JStr(user_id), exp |-> t + JWT_EXPIRATION_TIME], JWT_SECRET)

\* Faulty variant: decoding that does not look at the exp claim.
jwt_decode_no_exp(token, key, t) ==
  IF token.sig # key THEN [err |-> "InvalidTokenError"]
  ELSE [err |-> "", payload |-> token.payload]

\* jwt.decode(token, key): signature first, then the exp claim.
jwt_decode(token, key, t) ==
  IF token.sig # key THEN [err |-> "InvalidTokenError"]
  ELSE IF "exp" \in DOMAIN token.payload /\ token.payload.exp <= t
       THEN [err |-> "ExpiredSignatureError"]
       ELSE [err |-> "", payload |-> token.payload]

(***************************************************************************)
(* The document store.                                                     *)
(***************************************************************************)
\* The client connections whose requests may overlap, and a connection with
\* no request suspended.
Clients == {"c1", "c2"}
Idle == [pc |-> "idle"]

UserIdSeq == <<"u1", "u2", "u3", "u4">>
BookIdSeq == [i \in 1..40 |-> "b" \o ToString(i)]
RecIdSeq == <<"r1", "r2", "r3">>
SessionIdSeq == <<"s1", "s2", "s3", "s4", "s5", "s6", "s7", "s8", "s9">>

\* find_one: the first document, in insertion order, that matches.
FirstIndex(S) == CHOOSE i \in S : \A j \in S : i <= j

\* Faulty variant: a lookup filter that matches every user.
UserIdMatches_any(u, user_id) == TRUE

UserIdMatches(u, user_id) == JStr(u.id) = user_id
FindUserById(user_id) ==
  LET S == {i \in DOMAIN users : UserIdMatches(users[i], user_id)}
  IN IF S = {} THEN 0 ELSE FirstIndex(S)

\* Faulty variant: a lookup by email that never finds the user.
FindUserByEmail_none(email) == 0

FindUserByEmail(email) ==
  LET S == {i \in DOMAIN users : users[i].email = email}
  IN IF S = {} THEN 0 ELSE FirstIndex(S)

FindBookById(book_id) ==
  LET S == {i \in DOMAIN books : JStr(books[i].id) = book_id}
  IN IF S = {} THEN 0 ELSE FirstIndex(S)

\* class User, as built by register.
NewUser(email, name, password_hash) ==
  [id |-> UserIdSeq[Len(users) + 1],
   email |-> email,
   name |-> name,
   password_hash |-> password_hash,
   grade |-> JNull,
   subjects |-> <<>>,
   selected_textbooks |-> [k \in {} |-> <<>>],
   reading_history |-> <<>>,
   onboarding_completed |-> FALSE]

\* class UserResponse: the user without the password hash.
UserResponse(u) ==
  [id |-> u.id, email |-> u.email, name |-> u.name, grade |-> u.grade,
   subjects |-> u.subjects, selected_textbooks |-> u.selected_textbooks,
   reading_history |-> u.reading_history,
   onboarding_completed |-> u.onboarding_completed]

\* Depends(get_current_user): the authenticated user or the 401 it raises.
get_current_user(token) ==
  LET d == jwt_decode(token, JWT_SECRET, now)
      user_id == IF "user_id" \in DOMAIN d.payload THEN d.payload.user_id ELSE JNull
      i == FindUserById(user_id)
  IN IF d.err = "ExpiredSignatureError" THEN [status |-> 401, detail |-> "Token expired"]
     ELSE IF d.err = "InvalidTokenError" THEN [status |-> 401, detail |-> "Invalid token"]
     ELSE IF ~Truthy(user_id) THEN [status |-> 401, detail |-> "Invalid token"]
     ELSE IF i = 0 THEN [status |-> 401, detail |-> "User not found"]
     ELSE [status |-> 200, index |-> i, user |-> users[i]]

Unauthorized(op, token, auth) ==
  /\ resp' = [op |-> op, status |-> 401, detail |-> auth.detail, token |-> token, at |-> now]
  /\ UNCHANGED <<store, now, inflight>>

(***************************************************************************)
(* Authentication routes.                                                  *)
(***************************************************************************)
\* POST /register
register(email, name, password, salt) ==
  LET existing_user == FindUserByEmail(email)
      user == NewUser(email, name, hash_password(password, salt))
  IN IF existing_user # 0
     THEN /\ resp' = [op |-> "register", status |-> 400,
                      detail |-> "Email already registered", email |-> email]
          /\ UNCHANGED <<store, now, inflight>>
     ELSE /\ Len(users) < Len(UserIdSeq)
          /\ users' = Append(users, user)
          /\ resp' = [op |-> "register", status |-> 200, email |-> email,
                      token |-> create_access_token(user.id, now),
                      user |-> UserResponse(user)]
          /\ UNCHANGED <<books, reading_sessions, recommendations, textbooks, now, inflight>>

\* POST /login
login(email, password) ==
  LET i == FindUserByEmail(email)
  IN /\ IF i = 0 \/ ~verify_password(password, users[i].password_hash)
        THEN resp' = [op |-> "login", status |-> 401,
                      detail |-> "Invalid email or password",
                      email |-> email, password |-> password]
        ELSE resp' = [op |-> "login", status |-> 200,
                      email |-> email, password |-> password,
                      token |-> create_access_token(users[i].id, now),
                      user |-> UserResponse(users[i])]
     /\ UNCHANGED <<store, now, inflight>>

\* GET /profile
get_profile(token) ==
  LET auth == get_current_user(token)
  IN IF auth.status # 200 THEN Unauthorized("get_profile", token, auth)
     ELSE /\ resp' = [op |-> "get_profile", status |-> 200, token |-> token, at |-> now,
                      user |-> UserResponse(auth.user)]
          /\ UNCHANGED <<store, now, inflight>>

\* Faulty variant: a $set that leaves the grade out.
OnboardingUpdate_no_grade(user, grade, subjects) ==
  [user EXCEPT !.subjects = subjects, !.onboarding_completed = TRUE]

\* The $set of complete_onboarding.
OnboardingUpdate(user, grade, subjects) ==
  [user EXCEPT !.grade = JStr(grade), !.subjects = subjects, !.onboarding_completed = TRUE]

\* POST /onboarding
complete_onboarding(token, grade, subjects) ==
  LET auth == get_current_user(token)
      updated == OnboardingUpdate(auth.user, grade, subjects)
  IN IF auth.status # 200 THEN Unauthorized("complete_onboarding", token, auth)
     ELSE /\ users' = [users EXCEPT ![auth.index] = updated]
          /\ resp' = [op |-> "complete_onboarding", status |-> 200, token |-> token, at |-> now,
                      grade |-> grade, subjects |-> subjects,
                      user |-> UserResponse(users'[FindUserById(JStr(auth.user.id))])]
          /\ UNCHANGED <<books, reading_sessions, recommendations, textbooks, now, inflight>>

\* Time passes between requests.
Tick ==
  /\ now < MaxTime
  /\ now' = now + 1
  /\ UNCHANGED <<store, resp, inflight>>

(***************************************************************************)
(* The hosted language model.  chat.send_message either raises or returns  *)
(* a text; json.loads turns a text into a value or raises.                 *)
(***************************************************************************)
Raises == [raises |-> TRUE]
Says(text) == [raises |-> FALSE, text |-> text]

AnalysisObject ==
  [summary |-> JStr("Sets and numbers"),
   learning_objectives |-> JArr(<<JStr("Count to ten")>>),
   topics |-> JArr(<<JStr("Counting")>>),
   themes |-> JArr(<<JStr("Numeracy")>>),
   recommended_grade |-> JStr("6th"),
   subject_category |-> JStr("Science"),
   difficulty |-> JStr("Beginner"),
   educational_value |-> JStr("High"),
   keywords |-> JArr(<<JStr("sets")>>),
   prerequisites |-> JStr("None")]

\* json.loads on the texts the model is taken to return.
json_loads(text) ==
  CASE text = "null" -> [ok |-> TRUE, value |-> JNull]
    [] text = "7" -> [ok |-> TRUE, value |-> JNum(7)]
    [] text = "\"b1\"" -> [ok |-> TRUE, value |-> JStr("b1")]
    [] text = "[]" -> [ok |-> TRUE, value |-> JArr(<<>>)]
    [] text = "{}" -> [ok |-> TRUE, value |-> EmptyObj]
    [] text = "{\"summary\": \"Sets and numbers\", \"learning_objectives\": [\"Count to ten\"], \"topics\": [\"Counting\"], \"themes\": [\"Numeracy\"], \"recommended_grade\": \"6th\", \"subject_category\": \"Science\", \"difficulty\": \"Beginner\", \"educational_value\": \"High\", \"keywords\": [\"sets\"], \"prerequisites\": \"None\"}"
         -> [ok |-> TRUE, value |-> JObj(AnalysisObject)]
    [] text = "{\"summary\": [\"Sets\", \"Numbers\"]}"
         -> [ok |-> TRUE,
             value |-> JObj([summary |-> JArr(<<JStr("Sets"), JStr("Numbers")>>)])]
    [] text = "[\"b1\"]" -> [ok |-> TRUE, value |-> JArr(<<JStr("b1")>>)]
    [] text = "[\"b2\", \"b1\"]" -> [ok |-> TRUE, value |-> JArr(<<JStr("b2"), JStr("b1")>>)]
    [] text = "[\"b1\", \"b1\"]" -> [ok |-> TRUE, value |-> JArr(<<JStr("b1"), JStr("b1")>>)]
    [] text = "[\"b9\"]" -> [ok |-> TRUE, value |-> JArr(<<JStr("b9")>>)]
    [] text = "{\"b1\": 1}" -> [ok |-> TRUE, value |-> JObj([b1 |-> JNum(1)])]
    [] text = "{\"book_ids\": [\"b1\"], \"reasoning\": \"Builds on counting\"}"
         -> [ok |-> TRUE,
             value |-> JObj([book_ids |-> JArr(<<JStr("b1")>>),
                             reasoning |-> JStr("Builds on counting")])]
    [] text = "{\"book_ids\": [\"b2\", \"b9\"]}"
         -> [ok |-> TRUE, value |-> JObj([book_ids |-> JArr(<<JStr("b2"), JStr("b9")>>)])]
    [] text = "{\"book_ids\": \"b1\"}"
         -> [ok |-> TRUE, value |-> JObj([book_ids |-> JStr("b1")])]
    [] text = "{\"reasoning\": null}"
         -> [ok |-> TRUE, value |-> JObj([reasoning |-> JNull])]
    [] OTHER -> [ok |-> FALSE]

\* The outcome of a call: a returned value or a raised exception.
Return(value) == [raised |-> FALSE, value |-> value]
Raise(exc) == [raised |-> TRUE, exc |-> exc]

\* get_ai_analysis: the inner except (JSON parsing failed).
AnalysisFallback(title, author, grade_level, subject) ==
  JObj([summary |-> JStr("Educational content analysis available"),
        learning_objectives |-> JArr(<<JStr("Comprehensive learning experience")>>),
        topics |-> JArr(<<JStr("Various educational topics")>>),
        themes |-> JArr(<<JStr("Educational content")>>),
        recommended_grade |-> Or(grade_level, JStr("5th")),
        subject_category |-> Or(subject, JStr("General Education")),
        difficulty |-> JStr("Intermediate"),
        educational_value |-> JStr("Engaging educational content"),
        keywords |-> JArr(<<JStr(Lower(title)), JStr(Lower(author))>>),
        prerequisites |-> JStr("Basic reading comprehension")])

\* get_ai_analysis: the outer except (the call failed).
AnalysisPending(grade_level, subject) ==
  JObj([summary |-> JStr("Content analysis pending"),
        learning_objectives |-> JArr(<<>>),
        topics |-> JArr(<<>>),
        themes |-> JArr(<<>>),
        recommended_grade |-> Or(grade_level, JStr("5th")),
        subject_category |-> Or(subject, JStr("General")),
        difficulty |-> JStr("Unknown"),
        educational_value |-> JStr("Educational content"),
        keywords |-> JArr(<<>>),
        prerequisites |-> JStr("None specified")])

\* Faulty variant: no outer try, so a failing call escapes.
get_ai_analysis_unguarded(reply, content, title, author, grade_level, subject) ==
  IF reply.raises THEN Raise("Exception")
  ELSE LET parsed == json_loads(reply.text)
       IN IF parsed.ok THEN Return(parsed.value)
          ELSE Return(AnalysisFallback(title, author, grade_level, subject))

get_ai_analysis(reply, content, title, author, grade_level, subject) ==
  IF reply.raises THEN Return(AnalysisPending(grade_level, subject))
  ELSE LET parsed == json_loads(reply.text)
       IN IF parsed.ok THEN Return(parsed.value)
          ELSE Return(AnalysisFallback(title, author, grade_level, subject))

(***************************************************************************)
(* Books.                                                                  *)
(***************************************************************************)
\* pydantic validation of class Book / class BookResponse on a document.
BookValid(b) ==
  /\ IsOptStr(b.grade_level)
  /\ IsOptStr(b.subject)
  /\ IsOptStr(b.summary)
  /\ IsStrList(b.keywords)
  /\ IsOptDict(b.ai_insights)

BookResponse(b) ==
  [id |-> b.id, title |-> b.title, author |-> b.author, content |-> b.content,
   grade_level |-> b.grade_level, subject |-> b.subject,
   textbook_id |-> b.textbook_id, chapter |-> b.chapter, summary |-> b.summary,
   keywords |-> b.keywords, ai_insights |-> b.ai_insights, file_type |-> b.file_type]

\* An exception no handler catches: 500 Internal Server Error.
ServerError(op, token, info) ==
  /\ resp' = [op |-> op, status |-> 500, token |-> token, at |-> now, call |-> info]
  /\ UNCHANGED <<store, now, inflight>>

\* What a handler passed to get_ai_analysis and what came back.
AnalysisCall(reply, title, author, grade_level, subject, ai) ==
  [reply |-> reply, title |-> title, author |-> author, grade_level |-> grade_level,
   subject |-> subject, result |-> ai]

NotFound(op, token, detail) ==
  /\ resp' = [op |-> op, status |-> 404, detail |-> detail, token |-> token, at |-> now]
  /\ UNCHANGED <<store, now, inflight>>

\* Faulty variant: the analysis' grade and subject win over the caller's.
NewBook_ai_first(title, author, content, grade_level, subject, file_url, file_type, ai_insights, created_by) ==
  [id |-> BookIdSeq[Len(books) + 1],
   title |-> title,
   author |-> author,
   content |-> content,
   grade_level |-> Or(Get(ai_insights, "recommended_grade", JNull), grade_level),
   subject |-> Or(Get(ai_insights, "subject_category", JNull), subject),
   textbook_id |-> JNull,
   chapter |-> JNull,
   file_url |-> file_url,
   summary |-> Get(ai_insights, "summary", JStr("")),
   keywords |-> Get(ai_insights, "keywords", JArr(<<>>)),
   ai_insights |-> ai_insights,
   created_by |-> created_by,
   file_type |-> file_type]

\* Book(...) as create_book and upload_book build it from the analysis.
NewBook(title, author, content, grade_level, subject, file_url, file_type, ai_insights, created_by) ==
  [id |-> BookIdSeq[Len(books) + 1],
   title |-> title,
   author |-> author,
   content |-> content,
   grade_level |-> Or(grade_level, Get(ai_insights, "recommended_grade", JNull)),
   subject |-> Or(subject, Get(ai_insights, "subject_category", JNull)),
   textbook_id |-> JNull,
   chapter |-> JNull,
   file_url |-> file_url,
   summary |-> Get(ai_insights, "summary", JStr("")),
   keywords |-> Get(ai_insights, "keywords", JArr(<<>>)),
   ai_insights |-> ai_insights,
   created_by |-> created_by,
   file_type |-> file_type]

\* POST /books
create_book(token, book_data, reply) ==
  LET auth == get_current_user(token)
      content == IF Truthy(book_data.content) THEN book_data.content.s ELSE ""
      ai == get_ai_analysis(reply, content, book_data.title, book_data.author,
                            book_data.grade_level, book_data.subject)
      book == NewBook(book_data.title, book_data.author, content, book_data.grade_level,
                      book_data.subject, JNull, JStr("text"), ai.value, auth.user.id)
      call == AnalysisCall(reply, book_data.title, book_data.author, book_data.grade_level,
                           book_data.subject, ai)
  IN IF auth.status # 200 THEN Unauthorized("create_book", token, auth)
     ELSE IF ai.raised \/ ~HasGet(ai.value) THEN ServerError("create_book", token, call)
     ELSE IF ~BookValid(book) THEN ServerError("create_book", token, call)
     ELSE /\ Len(books) < Len(BookIdSeq)
          /\ books' = Append(books, book)
          /\ resp' = [op |-> "create_book", status |-> 200, token |-> token, at |-> now,
                      call |-> call, book |-> BookResponse(book)]
          /\ UNCHANGED <<users, reading_sessions, recommendations, textbooks, now, inflight>>

\* POST /ai/analyze/{book_id}
analyze_book(token, book_id, reply) ==
  LET auth == get_current_user(token)
      i == FindBookById(JStr(book_id))
      book == books[i]
      ai == get_ai_analysis(reply, book.content, book.title, book.author,
                            book.grade_level, book.subject)
      ai_insights == ai.value
      call == AnalysisCall(reply, book.title, book.author, book.grade_level, book.subject, ai)
      updated == [book EXCEPT
                    !.ai_insights = ai_insights,
                    !.summary = Get(ai_insights, "summary", JStr("")),
                    !.grade_level = Get(ai_insights, "recommended_grade", book.grade_level),
                    !.subject = Get(ai_insights, "subject_category", book.subject)]
  IN IF auth.status # 200 THEN Unauthorized("analyze_book", token, auth)
     ELSE IF i = 0 THEN NotFound("analyze_book", token, "Book not found")
     ELSE IF ai.raised \/ ~HasGet(ai_insights) THEN ServerError("analyze_book", token, call)
     ELSE /\ books' = [books EXCEPT ![i] = updated]
          /\ resp' = [op |-> "analyze_book", status |-> 200, token |-> token, at |-> now,
                      call |-> call, book_id |-> book_id, insights |-> ai_insights]
          /\ UNCHANGED <<users, reading_sessions, recommendations, textbooks, now, inflight>>

\* [BookResponse(**book) for book in books]
AllValid(bs) == \A i \in DOMAIN bs : BookValid(bs[i])
Responses(bs) == [i \in DOMAIN bs |-> BookResponse(bs[i])]

\* Faulty variant: a filter that looks at nothing.
BooksFilter_any(b, grade, subject, textbook_id) == TRUE

\* MongoDB equality on a field: the value itself, or an array that holds it.
FieldEquals(field, value) ==
  field = value \/ (field.t = "arr" /\ value \in Range(field.a))

\* filter_criteria of get_books: a criterion for every parameter that is given.
BooksFilter(b, grade, subject, textbook_id) ==
  /\ Truthy(grade) => FieldEquals(b.grade_level, grade)
  /\ Truthy(subject) => FieldEquals(b.subject, subject)
  /\ Truthy(textbook_id) => FieldEquals(b.textbook_id, textbook_id)

\* GET /books, for limit >= 1: find(filter).skip(skip).limit(limit).
get_books(skip, limit, grade, subject, textbook_id) ==
  LET matching == SelectSeq(books, LAMBDA b : BooksFilter(b, grade, subject, textbook_id))
      page == SubSeq(matching, skip + 1, Min(skip + limit, Len(matching)))
      request == [skip |-> skip, limit |-> limit, grade |-> grade, subject |-> subject,
                  textbook_id |-> textbook_id]
  IN /\ resp' = IF AllValid(page)
                THEN [op |-> "get_books", status |-> 200, request |-> request,
                      books |-> Responses(page)]
                ELSE [op |-> "get_books", status |-> 500, request |-> request]
     /\ UNCHANGED <<store, now, inflight>>

(***************************************************************************)
(* Semantic search.                                                        *)
(***************************************************************************)
\* Python `needle in hay` on strings.
Contains(needle, hay) ==
  \E k \in 0..(Len(hay) - Len(needle)) :
    \A j \in 1..Len(needle) : hay[k + j] = needle[j]

\* The keys of a dict as a list.
RECURSIVE KeyList(_)
KeyList(S) ==
  IF S = {} THEN <<>>
  ELSE LET k == CHOOSE x \in S : TRUE IN <<JStr(k)>> \o KeyList(S \ {k})

\* `for x in value`: the items, or none when the value is not iterable.
Iterable(v) == v.t \in {"arr", "obj", "str"}
Items(v) ==
  CASE v.t = "arr" -> v.a
    [] v.t = "obj" -> KeyList(DOMAIN v.o)
    [] v.t = "str" -> [i \in DOMAIN Chars(v.s) |-> JStr(Chars(v.s)[i])]

\* The books found one by one for a list of ids, in the order of the ids.
RECURSIVE FetchBooks(_)
FetchBooks(ids) ==
  IF ids = <<>> THEN <<>>
  ELSE LET i == FindBookById(Head(ids))
       IN (IF i # 0 THEN <<books[i]>> ELSE <<>>) \o FetchBooks(Tail(ids))

\* Faulty variant: every book matches.
TextMatch_any(query_lower, book) == TRUE

\* The test of the fallback loop: the query in the title, the author or the
\* first 1000 characters of the lower-cased content.
TextMatch(query_lower, book) ==
  \/ Contains(query_lower, LowerSeq(Chars(book.title)))
  \/ Contains(query_lower, LowerSeq(Chars(book.author)))
  \/ Contains(query_lower,
              SubSeq(LowerSeq(Chars(book.content)), 1, Min(1000, Len(Chars(book.content)))))

GradeMatch(user_grade, book) ==
  ~Truthy(user_grade) \/ ~Truthy(book.grade_level) \/ book.grade_level = user_grade

SubjectMatch(user_subjects, book) ==
  \/ user_subjects = <<>>
  \/ ~Truthy(book.subject)
  \/ \E i \in DOMAIN user_subjects : JStr(user_subjects[i]) = book.subject

\* Faulty variant: every matching book is appended, agreeing or not.
RECURSIVE SearchLoop_append(_, _, _, _, _)
SearchLoop_append(k, results, query_lower, user_grade, user_subjects) ==
  IF k > Len(books) THEN results
  ELSE LET book == books[k]
           next == IF TextMatch(query_lower, book) THEN Append(results, book) ELSE results
       IN SearchLoop_append(k + 1, next, query_lower, user_grade, user_subjects)

\* The fallback loop of get_semantic_search_results over books[k..].
RECURSIVE SearchLoop(_, _, _, _, _)
SearchLoop(k, results, query_lower, user_grade, user_subjects) ==
  IF k > Len(books) THEN results
  ELSE LET book == books[k]
           next == IF TextMatch(query_lower, book)
                   THEN IF GradeMatch(user_grade, book) /\ SubjectMatch(user_subjects, book)
                        THEN <<book>> \o results
                        ELSE Append(results, book)
                   ELSE results
       IN SearchLoop(k + 1, next, query_lower, user_grade, user_subjects)

\* Faulty variant: a prompt that lists every stored book.
SearchCandidates_all == books

\* `for book in books[:20]` of the search prompt.
SearchCandidates == SubSeq(books, 1, Min(20, Len(books)))

\* `for book in unread_books[:30]` of the recommendation prompt.
RecommendCandidates(unread_books) == SubSeq(unread_books, 1, Min(30, Len(unread_books)))

\* The ids a prompt lists.
Ids(bs) == [i \in DOMAIN bs |-> bs[i].id]

\* Faulty variant: the inner try holds json.loads alone, so a parsed value that
\* cannot be iterated ends in the outer except.
get_semantic_search_results_narrow(reply, query, user_id) ==
  LET u == FindUserById(JStr(user_id))
      user_grade == IF u # 0 THEN users[u].grade ELSE JNull
      user_subjects == IF u # 0 THEN users[u].subjects ELSE <<>>
      parsed == json_loads(reply.text)
      fallback == SearchLoop(1, <<>>, LowerSeq(Chars(query)), user_grade, user_subjects)
  IN IF reply.raises THEN [listed |-> Ids(SearchCandidates), results |-> <<>>, path |-> "error"]
     ELSE IF parsed.ok
          THEN IF Iterable(parsed.value)
               THEN [listed |-> Ids(SearchCandidates), results |-> FetchBooks(Items(parsed.value)), path |-> "parsed"]
               ELSE [listed |-> Ids(SearchCandidates), results |-> <<>>, path |-> "error"]
          ELSE [listed |-> Ids(SearchCandidates), results |-> SubSeq(fallback, 1, Min(10, Len(fallback))), path |-> "fallback"]

get_semantic_search_results(reply, query, user_id) ==
  LET u == FindUserById(JStr(user_id))
      user_grade == IF u # 0 THEN users[u].grade ELSE JNull
      user_subjects == IF u # 0 THEN users[u].subjects ELSE <<>>
      parsed == json_loads(reply.text)
      fallback == SearchLoop(1, <<>>, LowerSeq(Chars(query)), user_grade, user_subjects)
  IN IF reply.raises THEN [listed |-> Ids(SearchCandidates), results |-> <<>>, path |-> "error"]
     ELSE IF parsed.ok /\ Iterable(parsed.value)
          THEN [listed |-> Ids(SearchCandidates), results |-> FetchBooks(Items(parsed.value)), path |-> "parsed"]
          ELSE [listed |-> Ids(SearchCandidates), results |-> SubSeq(fallback, 1, Min(10, Len(fallback))), path |-> "fallback"]

\* MongoDB $regex with option i, for a query without regex metacharacters.
RegexMatch(query_lower, s) == Contains(query_lower, LowerSeq(Chars(s)))

\* The filter of the non-semantic branch of search_books.
SimpleMatch(query_lower, grade, b) ==
  /\ \/ RegexMatch(query_lower, b.title)
     \/ RegexMatch(query_lower, b.author)
     \/ RegexMatch(query_lower, b.content)
     \/ \E i \in DOMAIN b.keywords.a : RegexMatch(query_lower, b.keywords.a[i].s)
     \/ (IsStr(b.subject) /\ RegexMatch(query_lower, b.subject.s))
  /\ Truthy(grade) => b.grade_level = grade


\* POST /books/search
search_books(token, query, semantic, reply) ==
  LET auth == get_current_user(token)
      found == get_semantic_search_results(reply, query, auth.user.id)
      simple == SelectSeq(books, LAMBDA b : SimpleMatch(LowerSeq(Chars(query)), auth.user.grade, b))
      results == IF semantic THEN found.results ELSE SubSeq(simple, 1, Min(20, Len(simple)))
  IN IF auth.status # 200 THEN Unauthorized("search_books", token, auth)
     ELSE IF ~AllValid(results)
          THEN ServerError("search_books", token,
                           [reply |-> reply, semantic |-> semantic,
                            listed |-> IF semantic THEN found.listed ELSE <<>>])
     ELSE /\ resp' = [op |-> "search_books", status |-> 200, token |-> token, at |-> now,
                      query |-> query, semantic |-> semantic, reply |-> reply,
                      path |-> IF semantic THEN found.path ELSE "simple",
                      listed |-> IF semantic THEN found.listed ELSE <<>>,
                      results |-> Responses(results)]
          /\ UNCHANGED <<store, now, inflight>>

(***************************************************************************)
(* Recommendations.                                                        *)
(***************************************************************************)
\* f"Personalized educational recommendations for {grade} grade level"
PersonalizedFor(grade) ==
  CASE grade = "5th" -> "Personalized educational recommendations for 5th grade level"
    [] grade = "6th" -> "Personalized educational recommendations for 6th grade level"
    [] grade = "your" -> "Personalized educational recommendations for your grade level"

\* f"Educational recommendations tailored for {grade} grade level and preferred subjects"
TailoredFor(grade) ==
  CASE grade = "5th" -> "Educational recommendations tailored for 5th grade level and preferred subjects"
    [] grade = "6th" -> "Educational recommendations tailored for 6th grade level and preferred subjects"
    [] grade = "your" -> "Educational recommendations tailored for your grade level and preferred subjects"

\* The fallback loop of generate_recommendations over unread_books[k..].
RECURSIVE RecommendLoop(_, _, _, _, _)
RecommendLoop(k, filtered_books, unread_books, user_grade, user_subjects) ==
  IF k > Len(unread_books) THEN filtered_books
  ELSE LET book == unread_books[k]
           next == IF Truthy(user_grade) /\ book.grade_level = user_grade
                   THEN <<book>> \o filtered_books
                   ELSE IF \/ user_subjects = <<>>
                           \/ \E i \in DOMAIN user_subjects : JStr(user_subjects[i]) = book.subject
                        THEN Append(filtered_books, book)
                        ELSE filtered_books
       IN RecommendLoop(k + 1, next, unread_books, user_grade, user_subjects)

generate_recommendations(reply, user_id) ==
  LET u == FindUserById(JStr(user_id))
      user == users[u]
      grade == Or(user.grade, JStr("your")).s
      unread_books == SelectSeq(books, LAMBDA b : b.id \notin Range(user.reading_history))
      parsed == json_loads(reply.text)
      rec_data == parsed.value
      filtered_books == RecommendLoop(1, <<>>, unread_books, user.grade, user.subjects)
      listed == Ids(RecommendCandidates(unread_books))
      first5 == SubSeq(filtered_books, 1, Min(5, Len(filtered_books)))
  IN IF u = 0
     THEN [recommended_books |-> JArr(<<>>), reasoning |-> JStr("User not found"),
           path |-> "none", listed |-> <<>>]
     ELSE IF unread_books = <<>>
     THEN [recommended_books |-> JArr(<<>>), reasoning |-> JStr("No unread books available"),
           path |-> "none", listed |-> <<>>]
     ELSE IF reply.raises
     THEN [recommended_books |-> JArr(<<>>),
           reasoning |-> JStr("Recommendations temporarily unavailable"), path |-> "error",
           listed |-> listed]
     ELSE IF parsed.ok /\ HasGet(rec_data)
     THEN [recommended_books |-> Get(rec_data, "book_ids", JArr(<<>>)),
           reasoning |-> Get(rec_data, "reasoning", JStr(PersonalizedFor(grade))),
           path |-> "parsed", listed |-> listed]
     ELSE [recommended_books |-> JArr([i \in DOMAIN first5 |-> JStr(first5[i].id)]),
           reasoning |-> JStr(TailoredFor(grade)), path |-> "fallback",
           listed |-> listed]

\* class Recommendation
NewRecommendation(user_id, recommended_books, reasoning) ==
  [id |-> RecIdSeq[Len(recommendations) + 1], user_id |-> user_id,
   recommended_books |-> recommended_books, reasoning |-> reasoning]

\* GET /ai/recommendations
get_recommendations(token, reply) ==
  LET auth == get_current_user(token)
      rec_data == generate_recommendations(reply, auth.user.id)
      ids == rec_data.recommended_books
      found == IF Truthy(ids)
               THEN SelectSeq(books, LAMBDA b : JStr(b.id) \in Range(ids.a))
               ELSE <<>>
  IN IF auth.status # 200 THEN Unauthorized("get_recommendations", token, auth)
     \* $in needs an array
     ELSE IF Truthy(ids) /\ ids.t # "arr"
          THEN ServerError("get_recommendations", token,
                           [reply |-> reply, listed |-> rec_data.listed])
     ELSE IF ~AllValid(found) THEN ServerError("get_recommendations", token,
                           [reply |-> reply, listed |-> rec_data.listed])
     \* Recommendation(recommended_books: List[str], reasoning: str)
     ELSE IF ~IsStrList(ids) \/ ~IsStr(rec_data.reasoning)
          THEN ServerError("get_recommendations", token,
                           [reply |-> reply, listed |-> rec_data.listed])
     ELSE /\ Len(recommendations) < Len(RecIdSeq)
          /\ recommendations' = Append(recommendations,
                                       NewRecommendation(auth.user.id, ids, rec_data.reasoning))
          /\ resp' = [op |-> "get_recommendations", status |-> 200, token |-> token, at |-> now,
                      reply |-> reply, path |-> rec_data.path, listed |-> rec_data.listed,
                      books |-> Responses(found), reasoning |-> rec_data.reasoning]
          /\ UNCHANGED <<users, books, reading_sessions, textbooks, now, inflight>>

(***************************************************************************)
(* Uploads.                                                                *)
(***************************************************************************)
\* base64.b64encode(bytes).decode('utf-8') on the uploaded byte strings.
b64encode(bytes) ==
  CASE bytes = "Sets and numbers" -> "U2V0cyBhbmQgbnVtYmVycw=="
    [] bytes = "%PDF-1.4" -> "JVBERi0xLjQ="
    [] bytes = "\\xff\\xfe" -> "//4="
    [] bytes = "GIF89a" -> "R0lGODlh"

\* bytes.decode('utf-8')
utf8_decode(bytes) ==
  CASE bytes = "\\xff\\xfe" -> Raise("UnicodeDecodeError")
    [] OTHER -> Return(bytes)

\* str.strip() leaves nothing.
Blank(s) == \A i \in DOMAIN Chars(s) : Chars(s)[i] \in {" ", "\n"}

\* pdfplumber: the text of every page that has one, each followed by a newline.
RECURSIVE PlumberText(_)
PlumberText(pages) ==
  IF pages = <<>> THEN ""
  ELSE (IF Truthy(Head(pages)) THEN Head(pages).s \o "\n" ELSE "") \o PlumberText(Tail(pages))

\* PyPDF2: page.extract_text() + "\n" for every page; None + "\n" is a TypeError.
RECURSIVE PyPdfText(_)
PyPdfText(pages) ==
  IF pages = <<>> THEN Return("")
  ELSE LET rest == PyPdfText(Tail(pages))
       IN IF Head(pages).t # "str" \/ rest.raised THEN Raise("TypeError")
          ELSE Return(Head(pages).s \o "\n" \o rest.value)

\* Faulty variant: the second library's text wins whenever it has one.
extract_pdf_text_second_first(plumber, pypdf) ==
  LET first == IF plumber.raised THEN plumber ELSE Return(PlumberText(plumber.value))
      second == IF pypdf.raised THEN pypdf ELSE PyPdfText(pypdf.value)
  IN IF ~second.raised THEN [text |-> second.value, tried |-> <<"PyPDF2">>]
     ELSE IF ~first.raised /\ ~Blank(first.value)
          THEN [text |-> first.value, tried |-> <<"PyPDF2", "pdfplumber">>]
     ELSE [text |-> "Could not extract text from PDF", tried |-> <<"PyPDF2", "pdfplumber">>]

\* extract_pdf_text: pdfplumber first, PyPDF2 second; plumber and pypdf are
\* what the two libraries make of the bytes (the pages' texts, or an
\* exception).  tried lists the libraries in the order they were called.
extract_pdf_text(plumber, pypdf) ==
  LET first == IF plumber.raised THEN plumber ELSE Return(PlumberText(plumber.value))
      second == IF pypdf.raised THEN pypdf ELSE PyPdfText(pypdf.value)
  IN IF ~first.raised /\ ~Blank(first.value)
     THEN [text |-> first.value, tried |-> <<"pdfplumber">>]
     ELSE IF ~second.raised
          THEN [text |-> second.value, tried |-> <<"pdfplumber", "PyPDF2">>]
          ELSE [text |-> "Could not extract text from PDF",
                tried |-> <<"pdfplumber", "PyPDF2">>]

\* f"data:{content_type};base64,{file_data}"
DataUrl(content_type, file_data) == JStr(<<"data:", content_type, ";base64,", file_data>>)

\* str.startswith("text/") on the content types a client sends.
IsTextType(content_type) == content_type \in {"text/plain", "text/markdown"}

\* POST /books/upload
upload_book(token, form, file, plumber, pypdf, reply) ==
  LET auth == get_current_user(token)
      is_pdf == file.content_type = "application/pdf"
      is_text == IsTextType(file.content_type)
      decoded == utf8_decode(file.bytes)
      extract == extract_pdf_text(plumber, pypdf)
      extracted_text == IF is_pdf THEN extract.text ELSE decoded.value
      file_type == IF is_pdf THEN "pdf" ELSE "text"
      file_data == b64encode(file.bytes)
      ai == get_ai_analysis(reply, extracted_text, form.title, form.author,
                            form.grade_level, form.subject)
      book == NewBook(form.title, form.author, extracted_text, form.grade_level,
                      form.subject, DataUrl(file.content_type, file_data),
                      JStr(file_type), ai.value, auth.user.id)
      call == AnalysisCall(reply, form.title, form.author, form.grade_level, form.subject, ai)
      pdf == [plumber |-> plumber, pypdf |-> pypdf, extract |-> extract]
      failed(info) ==
        /\ resp' = [op |-> "upload_book", status |-> 500, token |-> token, at |-> now,
                    file |-> file, failure |-> info]
        /\ UNCHANGED <<store, now, inflight>>
  IN IF auth.status # 200 THEN Unauthorized("upload_book", token, auth)
     ELSE IF ~is_pdf /\ ~is_text
          THEN /\ resp' = [op |-> "upload_book", status |-> 400, token |-> token, at |-> now,
                           file |-> file,
                           detail |-> "Unsupported file type. Please upload PDF or text files."]
               /\ UNCHANGED <<store, now, inflight>>
     ELSE IF is_text /\ decoded.raised THEN failed(decoded.exc)
     ELSE IF ai.raised \/ ~HasGet(ai.value) THEN failed("AttributeError")
     ELSE IF ~BookValid(book) THEN failed("ValidationError")
     ELSE /\ Len(books) < Len(BookIdSeq)
          /\ books' = Append(books, book)
          /\ resp' = [op |-> "upload_book", status |-> 200, token |-> token, at |-> now,
                      file |-> file, pdf |-> IF is_pdf THEN pdf ELSE [none |-> TRUE],
                      call |-> call, book |-> BookResponse(book)]
          /\ UNCHANGED <<users, reading_sessions, recommendations, textbooks, now, inflight>>

(***************************************************************************)
(* Reading sessions.                                                       *)
(***************************************************************************)
\* Faulty variant: a lookup that never finds the session.
FindSession_none(user_id, book_id) == 0

FindSession(user_id, book_id) ==
  LET S == {i \in DOMAIN reading_sessions :
              /\ reading_sessions[i].user_id = user_id
              /\ reading_sessions[i].book_id = book_id}
  IN IF S = {} THEN 0 ELSE FirstIndex(S)

FindSessionById(sessions, session_id) ==
  LET S == {i \in DOMAIN sessions : sessions[i].id = session_id}
  IN IF S = {} THEN 0 ELSE FirstIndex(S)

\* Faulty variant: a filter on the session id alone.
FindOwnSession_any_user(session_id, user_id) == FindSessionById(reading_sessions, session_id)

FindOwnSession(session_id, user_id) ==
  LET S == {i \in DOMAIN reading_sessions :
              /\ reading_sessions[i].id = session_id
              /\ reading_sessions[i].user_id = user_id}
  IN IF S = {} THEN 0 ELSE FirstIndex(S)

\* class ReadingSession
NewSession(user_id, book_id) ==
  [id |-> SessionIdSeq[Len(reading_sessions) + 1], user_id |-> user_id,
   book_id |-> book_id, progress |-> 0, notes |-> "", bookmarks |-> <<>>,
   reading_time |-> 0, created_at |-> now, updated_at |-> now]

\* Faulty variant: $push, which adds the value whether or not it is there.
AddToSet_push(list, x) == Append(list, x)

\* $addToSet
AddToSet(list, x) == IF x \in Range(list) THEN list ELSE Append(list, x)

\* POST /reading/session
create_reading_session(token, book_id) ==
  LET auth == get_current_user(token)
      b == FindBookById(JStr(book_id))
      existing_session == FindSession(auth.user.id, book_id)
      session == NewSession(auth.user.id, book_id)
  IN IF auth.status # 200 THEN Unauthorized("create_reading_session", token, auth)
     ELSE IF b = 0
          THEN /\ resp' = [op |-> "create_reading_session", status |-> 404,
                           detail |-> "Book not found", token |-> token, at |-> now,
                           book_id |-> book_id]
               /\ UNCHANGED <<store, now, inflight>>
     ELSE IF existing_session # 0
          THEN /\ resp' = [op |-> "create_reading_session", status |-> 200, token |-> token, at |-> now,
                           book_id |-> book_id,
                           created |-> FALSE, session |-> reading_sessions[existing_session]]
               /\ UNCHANGED <<store, now, inflight>>
     ELSE /\ Len(reading_sessions) < Len(SessionIdSeq)
          /\ reading_sessions' = Append(reading_sessions, session)
          /\ users' = [users EXCEPT ![auth.index].reading_history =
                                       AddToSet(users[auth.index].reading_history, book_id)]
          /\ resp' = [op |-> "create_reading_session", status |-> 200, token |-> token, at |-> now,
                      book_id |-> book_id,
                      created |-> TRUE, session |-> session]
          /\ UNCHANGED <<books, recommendations, textbooks, now, inflight>>

\* Faulty variant: a $set that skips a parameter left at its default.
SessionUpdate_keep(session, progress, notes, bookmarks, reading_time) ==
  [session EXCEPT !.progress = IF progress = 0 THEN @ ELSE progress,
                  !.notes = IF notes = "" THEN @ ELSE notes,
                  !.bookmarks = IF bookmarks = <<>> THEN @ ELSE bookmarks,
                  !.reading_time = IF reading_time = 0 THEN @ ELSE reading_time,
                  !.updated_at = now]

\* The $set of update_reading_session.
SessionUpdate(session, progress, notes, bookmarks, reading_time) ==
  [session EXCEPT !.progress = progress, !.notes = notes, !.bookmarks = bookmarks,
                  !.reading_time = reading_time, !.updated_at = now]

\* PUT /reading/session/{session_id}; a parameter the request leaves out
\* arrives as its default (0.0, "", [], 0).
update_reading_session(token, session_id, progress, notes, bookmarks, reading_time) ==
  LET auth == get_current_user(token)
      i == FindOwnSession(session_id, auth.user.id)
      updated == SessionUpdate(reading_sessions[i], progress, notes, bookmarks, reading_time)
  IN IF auth.status # 200 THEN Unauthorized("update_reading_session", token, auth)
     ELSE IF i = 0
          THEN /\ resp' = [op |-> "update_reading_session", status |-> 404,
                           detail |-> "Reading session not found", token |-> token,
                           at |-> now, session_id |-> session_id]
               /\ UNCHANGED <<store, now, inflight>>
     ELSE /\ reading_sessions' = [reading_sessions EXCEPT ![i] = updated]
          /\ resp' = [op |-> "update_reading_session", status |-> 200, token |-> token, at |-> now,
                      session_id |-> session_id,
                      sent |-> [progress |-> progress, notes |-> notes,
                                bookmarks |-> bookmarks, reading_time |-> reading_time],
                      session |-> reading_sessions'[FindSessionById(reading_sessions', session_id)]]
          /\ UNCHANGED <<users, books, recommendations, textbooks, now, inflight>>

\* Faulty variant: a find without the user_id criterion.
OwnSessions_all(user_id) == reading_sessions

\* db.reading_sessions.find({"user_id": current_user.id})
OwnSessions(user_id) == SelectSeq(reading_sessions, LAMBDA s : s.user_id = user_id)

\* GET /reading/sessions
get_reading_sessions(token) ==
  LET auth == get_current_user(token)
      own == OwnSessions(auth.user.id)
  IN IF auth.status # 200 THEN Unauthorized("get_reading_sessions", token, auth)
     ELSE /\ resp' = [op |-> "get_reading_sessions", status |-> 200, token |-> token, at |-> now,
                      sessions |-> SubSeq(own, 1, Min(100, Len(own)))]
          /\ UNCHANGED <<store, now, inflight>>

(***************************************************************************)
(* Overlapping requests.  A handler is suspended at each await; between    *)
(* two awaits of one request other requests run.  c is the connection the  *)
(* request arrived on.                                                     *)
(***************************************************************************)
\* POST /register up to insert_one: the lookup by email, the 400, the User.
register_find(c, email, name, password, salt) ==
  LET existing_user == FindUserByEmail(email)
  IN /\ inflight[c] = Idle
     /\ IF existing_user # 0
        THEN /\ resp' = [op |-> "register", status |-> 400,
                         detail |-> "Email already registered", email |-> email]
             /\ UNCHANGED <<store, now, inflight>>
        ELSE /\ inflight' = [inflight EXCEPT ![c] =
                               [pc |-> "register_insert", email |-> email, name |-> name,
                                password_hash |-> hash_password(password, salt)]]
             /\ UNCHANGED <<store, now, resp>>

\* POST /register from insert_one on.
register_insert(c) ==
  LET r == inflight[c]
      user == NewUser(r.email, r.name, r.password_hash)
  IN /\ r.pc = "register_insert"
     /\ Len(users) < Len(UserIdSeq)
     /\ users' = Append(users, user)
     /\ resp' = [op |-> "register", status |-> 200, email |-> r.email,
                 token |-> create_access_token(user.id, now),
                 user |-> UserResponse(user)]
     /\ inflight' = [inflight EXCEPT ![c] = Idle]
     /\ UNCHANGED <<books, reading_sessions, recommendations, textbooks, now>>

\* POST /reading/session up to insert_one: the user of the token, the book,
\* the session of this user and book (three lookups; no request removes a
\* user or a book, so the first two are taken together with the third), the
\* 404, the early return, the ReadingSession.
session_find(c, token, book_id) ==
  LET auth == get_current_user(token)
      b == FindBookById(JStr(book_id))
      existing_session == FindSession(auth.user.id, book_id)
  IN /\ inflight[c] = Idle
     /\ IF auth.status # 200 THEN Unauthorized("create_reading_session", token, auth)
        ELSE IF b = 0
             THEN /\ resp' = [op |-> "create_reading_session", status |-> 404,
                              detail |-> "Book not found", token |-> token, at |-> now,
                              book_id |-> book_id]
                  /\ UNCHANGED <<store, now, inflight>>
        ELSE IF existing_session # 0
             THEN /\ resp' = [op |-> "create_reading_session", status |-> 200,
                              token |-> token, at |-> now, book_id |-> book_id,
                              created |-> FALSE,
                              session |-> reading_sessions[existing_session]]
                  /\ UNCHANGED <<store, now, inflight>>
        ELSE /\ inflight' = [inflight EXCEPT ![c] =
                               [pc |-> "session_insert", token |-> token,
                                user_id |-> auth.user.id, book_id |-> book_id,
                                at |-> now]]
             /\ UNCHANGED <<store, now, resp>>

\* POST /reading/session: insert_one(session.dict()).
session_insert(c) ==
  LET r == inflight[c]
      session == [NewSession(r.user_id, r.book_id) EXCEPT !.created_at = r.at,
                                                          !.updated_at = r.at]
  IN /\ r.pc = "session_insert"
     /\ Len(reading_sessions) < Len(SessionIdSeq)
     /\ reading_sessions' = Append(reading_sessions, session)
     /\ inflight' = [inflight EXCEPT ![c] =
                       [pc |-> "session_history", token |-> r.token,
                        user_id |-> r.user_id, book_id |-> r.book_id, at |-> r.at,
                        session |-> session]]
     /\ UNCHANGED <<users, books, recommendations, textbooks, now, resp>>

\* POST /reading/session: update_one with $addToSet, and the return.
session_history(c) ==
  LET r == inflight[c]
      i == FindUserById(JStr(r.user_id))
  IN /\ r.pc = "session_history"
     /\ users' = IF i = 0 THEN users
                 ELSE [users EXCEPT ![i].reading_history =
                                      AddToSet(users[i].reading_history, r.book_id)]
     /\ resp' = [op |-> "create_reading_session", status |-> 200, token |-> r.token,
                 at |-> now, book_id |-> r.book_id, created |-> TRUE,
                 session |-> r.session]
     /\ inflight' = [inflight EXCEPT ![c] = Idle]
     /\ UNCHANGED <<books, reading_sessions, recommendations, textbooks, now>>

(***************************************************************************)
(* Textbooks.                                                              *)
(***************************************************************************)
TextbookIdSeq == <<"t1", "t2", "t3", "t4", "t5", "t6", "t7", "t8">>

sample_textbooks ==
  << [title |-> "Elementary Mathematics - Grade 1", subject |-> "Mathematics",
      grade_levels |-> <<"1st">>],
     [title |-> "Algebra Foundations - Grade 7", subject |-> "Mathematics",
      grade_levels |-> <<"7th", "8th">>],
     [title |-> "Exploring Our World - Grade 3 Science", subject |-> "Science",
      grade_levels |-> <<"3rd", "4th">>],
     [title |-> "Physical Science Fundamentals - Grade 8", subject |-> "Science",
      grade_levels |-> <<"8th", "9th">>],
     [title |-> "Reading Adventures - Grade 2", subject |-> "English",
      grade_levels |-> <<"2nd", "3rd">>],
     [title |-> "Literature and Writing - Grade 10", subject |-> "English",
      grade_levels |-> <<"9th", "10th">>],
     [title |-> "Our Community - Grade 1 Social Studies", subject |-> "Social Studies",
      grade_levels |-> <<"1st", "2nd">>],
     [title |-> "World History - Grade 6", subject |-> "Social Studies",
      grade_levels |-> <<"6th", "7th">>] >>

\* The documents insert_many(sample_textbooks) adds.
SeededTextbooks ==
  [i \in DOMAIN sample_textbooks |->
     [id |-> TextbookIdSeq[i], title |-> sample_textbooks[i].title,
      subject |-> sample_textbooks[i].subject,
      grade_levels |-> sample_textbooks[i].grade_levels]]

\* Faulty variant: the samples are inserted without counting first.
initialize_textbooks_always(collection) == collection \o SeededTextbooks

\* initialize_textbooks: insert the samples when the collection is empty.
initialize_textbooks(collection) ==
  IF Len(collection) = 0 THEN collection \o SeededTextbooks ELSE collection

\* @app.on_event("startup"): every start of the server process.
startup_event ==
  /\ textbooks' = initialize_textbooks(textbooks)
  /\ resp' = [op |-> "startup_event", status |-> 0, existing_count |-> Len(textbooks)]
  /\ UNCHANGED <<users, books, reading_sessions, recommendations, now, inflight>>

\* POST /textbook-selection
save_textbook_selection(token, subject, textbook_ids) ==
  LET auth == get_current_user(token)
      old == auth.user.selected_textbooks
      new == [k \in DOMAIN old \cup {subject} |-> IF k = subject THEN textbook_ids ELSE old[k]]
  IN IF auth.status # 200 THEN Unauthorized("save_textbook_selection", token, auth)
     ELSE /\ users' = [users EXCEPT ![auth.index].selected_textbooks = new]
          /\ resp' = [op |-> "save_textbook_selection", status |-> 200, token |-> token, at |-> now,
                      user |-> UserResponse(users'[FindUserById(JStr(auth.user.id))])]
          /\ UNCHANGED <<books, reading_sessions, recommendations, textbooks, now, inflight>>

\* GET /subjects/{subject}/textbooks
get_subject_textbooks(token, subject, grade) ==
  LET auth == get_current_user(token)
      target_grade == Or(grade, auth.user.grade)
      found == SelectSeq(textbooks, LAMBDA tb :
                 /\ tb.subject = subject
                 /\ Truthy(target_grade) => target_grade.s \in Range(tb.grade_levels))
  IN IF auth.status # 200 THEN Unauthorized("get_subject_textbooks", token, auth)
     ELSE /\ resp' = [op |-> "get_subject_textbooks", status |-> 200, token |-> token, at |-> now,
                      textbooks |-> SubSeq(found, 1, Min(100, Len(found)))]
          /\ UNCHANGED <<store, now, inflight>>

\* GET /textbooks, for limit >= 1.
get_textbooks(subject, grade, skip, limit) ==
  LET matching == SelectSeq(textbooks, LAMBDA tb :
                    /\ Truthy(subject) => tb.subject = subject.s
                    /\ Truthy(grade) => grade.s \in Range(tb.grade_levels))
      page == SubSeq(matching, skip + 1, Min(skip + limit, Len(matching)))
  IN /\ resp' = [op |-> "get_textbooks", status |-> 200,
                 request |-> [subject |-> subject, grade |-> grade, skip |-> skip,
                              limit |-> limit],
                 textbooks |-> page]
     /\ UNCHANGED <<store, now, inflight>>

(***************************************************************************)
(* Requests.                                                               *)
(***************************************************************************)
Emails == {"asha@school.in", "ravi@school.in"}
Passwords == {"Secret123", "WrongPassword123"}
Salts == {"salt1"}
Names == {"Asha"}
\* UserOnboarding bodies: grade and subjects.
OnboardingInputs == {<<"5th", <<"Mathematics">> >>, <<"6th", <<>> >>}

KnownIds == {users[i].id : i \in DOMAIN users}

\* The tokens register and login have handed out: made at day 0 or today.
IssuedTokens == {create_access_token(id, t) : id \in KnownIds, t \in {0, now}}

\* A token made today for each user.
FreshTokens == {create_access_token(id, now) : id \in KnownIds}

\* Tokens no protected route may accept: signed with another key, without a
\* user_id, for an id that is not in the store, made more than a week ago.
BadTokens ==
  {jwt_encode(create_access_token(id, now).payload, "guessed") : id \in KnownIds}
    \cup {jwt_encode([exp |-> now + JWT_EXPIRATION_TIME], JWT_SECRET)}
    \cup {create_access_token(UserIdSeq[Len(users) + 1], now)}
    \cup {create_access_token(id, now - JWT_EXPIRATION_TIME - 1) : id \in KnownIds}

\* BookCreate bodies.
BookData(title, content, grade_level, subject) ==
  [title |-> title, author |-> "Polya", content |-> content,
   grade_level |-> grade_level, subject |-> subject]

PlainBook == BookData("Algebra", JStr("Sets and numbers"), JNull, JNull)
GradedBook == BookData("Atoms", JNull, JStr("5th"), JStr("Mathematics"))

\* What the model answers to an analysis prompt.
AnalysisReplies ==
  {Raises,
   Says("Here is the analysis you asked for."),
   Says("null"),
   Says("[]"),
   Says("{}"),
   Says("{\"summary\": \"Sets and numbers\", \"learning_objectives\": [\"Count to ten\"], \"topics\": [\"Counting\"], \"themes\": [\"Numeracy\"], \"recommended_grade\": \"6th\", \"subject_category\": \"Science\", \"difficulty\": \"Beginner\", \"educational_value\": \"High\", \"keywords\": [\"sets\"], \"prerequisites\": \"None\"}"),
   Says("{\"summary\": [\"Sets\", \"Numbers\"]}")}

\* What the model answers to a search prompt.
SearchReplies ==
  {Raises,
   Says("I would start with the algebra book."),
   Says("null"),
   Says("7"),
   Says("\"b1\""),
   Says("{\"b1\": 1}"),
   Says("[]"),
   Says("[\"b1\"]"),
   Says("[\"b2\", \"b1\"]"),
   Says("[\"b1\", \"b1\"]"),
   Says("[\"b9\"]")}

\* What the model answers to a recommendation prompt.
RecommendationReplies ==
  {Raises,
   Says("I recommend the algebra book."),
   Says("null"),
   Says("[\"b1\"]"),
   Says("{}"),
   Says("{\"book_ids\": [\"b1\"], \"reasoning\": \"Builds on counting\"}"),
   Says("{\"book_ids\": [\"b2\", \"b9\"]}"),
   Says("{\"book_ids\": \"b1\"}"),
   Says("{\"reasoning\": null}")}

Queries == {"algebra"}

Init ==
  /\ users = <<>>
  /\ books = <<>>
  /\ reading_sessions = <<>>
  /\ recommendations = <<>>
  /\ textbooks = initialize_textbooks(<<>>)
  /\ now = 0
  /\ resp = [op |-> "none", status |-> 0]
  /\ inflight = [c \in Clients |-> Idle]

(***************************************************************************)
(* The authentication scenario: two users, passwords, a running clock.     *)
(***************************************************************************)
NextAuth ==
  \/ \E e \in Emails, n \in Names, p \in Passwords, s \in Salts : register(e, n, p, s)
  \/ \E e \in Emails, p \in Passwords : login(e, p)
  \/ \E tok \in IssuedTokens : get_profile(tok)
  \/ \E tok \in IssuedTokens, o \in OnboardingInputs : complete_onboarding(tok, o[1], o[2])
  \/ Tick

SpecAuth == Init /\ [][NextAuth]_vars

(***************************************************************************)
(* The analysis scenario: one user, every answer of the model to an        *)
(* analysis prompt.                                                        *)
(***************************************************************************)
NextBooks ==
  \/ \E n \in Names, s \in Salts : register("asha@school.in", n, "Secret123", s)
  \/ /\ Len(books) < MaxFewBooks
     /\ \E tok \in FreshTokens, d \in {PlainBook, GradedBook}, r \in AnalysisReplies :
          create_book(tok, d, r)
  \/ \E tok \in FreshTokens, id \in {"b1", "b9"}, r \in AnalysisReplies :
       analyze_book(tok, id, r)

SpecBooks == Init /\ [][NextBooks]_vars

(***************************************************************************)
(* The discovery scenario: one user, search and recommendations with every *)
(* answer of the model.                                                    *)
(***************************************************************************)
NextDiscover ==
  \/ \E n \in Names, s \in Salts : register("asha@school.in", n, "Secret123", s)
  \/ \E tok \in FreshTokens : complete_onboarding(tok, "5th", <<"Mathematics">>)
  \/ /\ Len(books) < MaxBooks
     /\ \E tok \in FreshTokens, d \in {PlainBook, GradedBook} : create_book(tok, d, Raises)
  \/ \E tok \in FreshTokens : analyze_book(tok, "b1", Says("{\"summary\": [\"Sets\", \"Numbers\"]}"))
  \/ \E tok \in FreshTokens, q \in Queries, r \in SearchReplies : search_books(tok, q, TRUE, r)
  \/ /\ Len(recommendations) < MaxRecs
     /\ \E tok \in FreshTokens, r \in RecommendationReplies : get_recommendations(tok, r)

SpecDiscover == Init /\ [][NextDiscover]_vars

(***************************************************************************)
(* Every route, with the tokens a protected route accepts and those it     *)
(* must refuse.                                                            *)
(***************************************************************************)
Tokens == FreshTokens \cup BadTokens

PdfFile == [content_type |-> "application/pdf", bytes |-> "%PDF-1.4"]
GifFile == [content_type |-> "image/gif", bytes |-> "GIF89a"]
UploadForm == [title |-> "Atoms", author |-> "Polya", grade_level |-> JStr("5th"),
               subject |-> JStr("Mathematics")]

Next ==
  \/ \E n \in Names, s \in Salts : register("asha@school.in", n, "Secret123", s)
  \/ \E e \in Emails, p \in Passwords : login(e, p)
  \/ \E tok \in Tokens : get_profile(tok)
  \/ \E tok \in Tokens, o \in OnboardingInputs : complete_onboarding(tok, o[1], o[2])
  \/ \E tok \in Tokens : save_textbook_selection(tok, "Mathematics", <<"t1">>)
  \/ \E tok \in Tokens : get_subject_textbooks(tok, "Mathematics", JNull)
  \/ /\ Len(books) < MaxFewBooks
     /\ \E tok \in Tokens : create_book(tok, GradedBook, Raises)
  \/ /\ Len(books) < MaxFewBooks
     /\ \E tok \in Tokens, f \in {PdfFile, GifFile} :
          upload_book(tok, UploadForm, f, Raise("PDFSyntaxError"), Return(<<JStr("Algebra")>>), Raises)
  \/ \E tok \in Tokens : analyze_book(tok, "b1", Raises)
  \/ \E tok \in Tokens, semantic \in BOOLEAN : search_books(tok, "algebra", semantic, Raises)
  \/ /\ Len(recommendations) < MaxRecs
     /\ \E tok \in Tokens : get_recommendations(tok, Raises)
  \/ \E tok \in Tokens, id \in {"b1", "b9"} : create_reading_session(tok, id)
  \/ \E tok \in Tokens : update_reading_session(tok, "s1", 50, "Chapter one", <<3>>, 20)
  \/ \E tok \in Tokens : get_reading_sessions(tok)
  \/ startup_event

Spec == Init /\ [][Next]_vars

(***************************************************************************)
(* The creation scenario: one user adds books by POST /books and by        *)
(* POST /books/upload, with and without grade and subject, with every kind *)
(* of file and every outcome of the two PDF libraries.                     *)
(***************************************************************************)
\* A BookCreate with a grade and an empty subject.
HalfBook == BookData("Atoms", JNull, JStr("5th"), JStr(""))

\* Form(None) for grade_level and subject.
BareForm == [title |-> "Algebra", author |-> "Polya", grade_level |-> JNull,
             subject |-> JNull]

TextFile == [content_type |-> "text/plain", bytes |-> "Sets and numbers"]
BadTextFile == [content_type |-> "text/plain", bytes |-> "\\xff\\xfe"]

\* What pdfplumber makes of the bytes: an exception, or the pages' texts
\* (None for a page without text).
PlumberOutcomes ==
  {Raise("PDFSyntaxError"),
   Return(<<>>),
   Return(<<JNull>>),
   Return(<<JStr(" ")>>),
   Return(<<JStr("Sets and numbers")>>),
   Return(<<JNull, JStr("Sets and numbers")>>)}

\* What PyPDF2 makes of the bytes.
PyPdfOutcomes ==
  {Raise("PdfReadError"),
   Return(<<>>),
   Return(<<JNull>>),
   Return(<<JStr("")>>),
   Return(<<JStr("Algebra")>>)}

UploadReplies ==
  {Raises,
   Says("[]"),
   Says("{\"summary\": \"Sets and numbers\", \"learning_objectives\": [\"Count to ten\"], \"topics\": [\"Counting\"], \"themes\": [\"Numeracy\"], \"recommended_grade\": \"6th\", \"subject_category\": \"Science\", \"difficulty\": \"Beginner\", \"educational_value\": \"High\", \"keywords\": [\"sets\"], \"prerequisites\": \"None\"}")}

NextCreate ==
  \/ \E n \in Names, s \in Salts : register("asha@school.in", n, "Secret123", s)
  \/ /\ Len(books) < MaxFewBooks
     /\ \E tok \in FreshTokens, d \in {PlainBook, GradedBook, HalfBook}, r \in AnalysisReplies :
          create_book(tok, d, r)
  \/ /\ Len(books) < MaxFewBooks
     /\ \E tok \in FreshTokens, form \in {UploadForm, BareForm}, r \in UploadReplies,
           plumber \in PlumberOutcomes, pypdf \in PyPdfOutcomes :
          upload_book(tok, form, PdfFile, plumber, pypdf, r)
  \/ /\ Len(books) < MaxFewBooks
     /\ \E tok \in FreshTokens, form \in {UploadForm, BareForm}, r \in UploadReplies,
           f \in {TextFile, BadTextFile, GifFile} :
          upload_book(tok, form, f, Raise("PDFSyntaxError"), Raise("PdfReadError"), r)

SpecCreate == Init /\ [][NextCreate]_vars

(***************************************************************************)
(* The browsing scenario: one user adds books of two grades and subjects,  *)
(* anyone lists them with and without filters.                             *)
(***************************************************************************)
ScienceBook == BookData("Atoms", JNull, JStr("6th"), JStr("Science"))

NextBrowse ==
  \/ \E n \in Names, s \in Salts : register("asha@school.in", n, "Secret123", s)
  \/ /\ Len(books) < MaxBooks
     /\ \E tok \in FreshTokens, d \in {PlainBook, GradedBook, ScienceBook} :
          create_book(tok, d, Raises)
  \/ \E tok \in FreshTokens : analyze_book(tok, "b1", Says("{\"summary\": [\"Sets\", \"Numbers\"]}"))
  \/ \E skip \in {0, 1}, limit \in {1, 20}, grade \in {JNull, JStr(""), JStr("5th")},
        subject \in {JNull, JStr("Mathematics")}, textbook_id \in {JNull, JStr("t1")} :
       get_books(skip, limit, grade, subject, textbook_id)

SpecBrowse == Init /\ [][NextBrowse]_vars

(***************************************************************************)
(* The reading scenario: two users read the book the first of them added;  *)
(* each opens a session, updates it, lists the own sessions; a day passes. *)
(***************************************************************************)
\* The parameters of a PUT /reading/session: all given, or all left out.
SessionUpdates ==
  {[progress |-> 50, notes |-> "Chapter one", bookmarks |-> <<3>>, reading_time |-> 20],
   [progress |-> 0, notes |-> "", bookmarks |-> <<>>, reading_time |-> 0]}

NextSessions ==
  \/ \E e \in Emails, n \in Names, s \in Salts : register(e, n, "Secret123", s)
  \/ /\ Len(books) < MaxFewBooks
     /\ \E tok \in FreshTokens :
          /\ tok.payload.user_id = JStr("u1")
          /\ create_book(tok, GradedBook, Raises)
  \/ \E tok \in FreshTokens, id \in {"b1", "b9"} : create_reading_session(tok, id)
  \/ \E tok \in FreshTokens, id \in {"s1", "s2", "s9"}, u \in SessionUpdates :
       update_reading_session(tok, id, u.progress, u.notes, u.bookmarks, u.reading_time)
  \/ \E tok \in FreshTokens : get_reading_sessions(tok)
  \/ now < MaxClock /\ Tick

SpecSessions == Init /\ [][NextSessions]_vars

(***************************************************************************)
(* The large library: one user fills the store with more books than a      *)
(* prompt lists and than a search returns, reads the first, searches while *)
(* the store fills and asks for recommendations once it is full; the model *)
(* does not answer usefully.                                               *)
(***************************************************************************)
\* A matching title with a grade and subject other than the user's.
AdvancedBook == BookData("Algebra", JNull, JStr("6th"), JStr("Science"))

\* The query occurs in the content only after the first 1000 characters.
PaddedBook == BookData("Atoms", JStr("<1000 spaces>algebra"), JStr("5th"), JStr("Mathematics"))

\* A matching title with the grade and subject the user takes at onboarding.
MathBook == BookData("Algebra", JStr("Sets and numbers"), JStr("5th"), JStr("Mathematics"))

\* The books arrive in a fixed rotation; the fourth is the padded one.
Shelf == <<MathBook, AdvancedBook, GradedBook>>
NextOnShelf == IF Len(books) = 3 THEN PaddedBook ELSE Shelf[(Len(books) % Len(Shelf)) + 1]

UselessReplies == {Raises, Says("I would start with the algebra book."), Says("7")}

NextMany ==
  \/ \E n \in Names, s \in Salts : register("asha@school.in", n, "Secret123", s)
  \/ \E tok \in FreshTokens : complete_onboarding(tok, "5th", <<"Mathematics">>)
  \/ /\ Len(books) < MaxManyBooks
     /\ \E tok \in FreshTokens : create_book(tok, NextOnShelf, Raises)
  \/ \E tok \in FreshTokens : create_reading_session(tok, "b1")
  \/ \E tok \in FreshTokens, r \in UselessReplies : search_books(tok, "algebra", TRUE, r)
  \/ /\ Len(books) = MaxManyBooks
     /\ Len(recommendations) < MaxRecs
     /\ \E tok \in FreshTokens, r \in UselessReplies : get_recommendations(tok, r)

SpecMany == Init /\ [][NextMany]_vars

(***************************************************************************)
(* The startup scenario: the database is empty before the server first     *)
(* starts; the server is started, and started again, and serves the        *)
(* textbook routes in between.  No request is served before a start.       *)
(***************************************************************************)
InitFresh ==
  /\ users = <<>>
  /\ books = <<>>
  /\ reading_sessions = <<>>
  /\ recommendations = <<>>
  /\ textbooks = <<>>
  /\ now = 0
  /\ resp = [op |-> "none", status |-> 0]
  /\ inflight = [c \in Clients |-> Idle]

Started == resp.op # "none"

NextStartup ==
  \/ startup_event
  \/ Started /\ \E n \in Names, s \in Salts : register("asha@school.in", n, "Secret123", s)
  \/ Started /\ \E tok \in FreshTokens, o \in OnboardingInputs :
                   complete_onboarding(tok, o[1], o[2])
  \/ Started /\ \E tok \in FreshTokens, ids \in {<<"t1">>, <<"t2", "t9">>} :
                   save_textbook_selection(tok, "Mathematics", ids)
  \/ Started /\ \E tok \in FreshTokens, subject \in {"Mathematics", "Science"},
                     grade \in {JNull, JStr("7th")} :
                   get_subject_textbooks(tok, subject, grade)
  \/ Started /\ \E subject \in {JNull, JStr("Science")}, grade \in {JNull, JStr("8th")},
                     skip \in {0, 1}, limit \in {1, 50} :
                   get_textbooks(subject, grade, skip, limit)

SpecStartup == InitFresh /\ [][NextStartup]_vars

(***************************************************************************)
(* The overlapping scenario: two connections send register and             *)
(* POST /reading/session requests that are served await by await, so that  *)
(* one request runs between the lookup and the insert of another.  The     *)
(* sessions are opened with the token of the first user.                   *)
(***************************************************************************)
NextRace ==
  \/ \E c \in Clients, n \in Names, s \in Salts :
       register_find(c, "asha@school.in", n, "Secret123", s)
  \/ \E c \in Clients : register_insert(c)
  \/ /\ Len(books) < MaxBooks
     /\ \E tok \in FreshTokens : create_book(tok, GradedBook, Raises)
  \/ \E tok \in FreshTokens : complete_onboarding(tok, "5th", <<"Mathematics">>)
  \/ \E c \in Clients, id \in {"b1", "b2", "b9"} :
       session_find(c, create_access_token("u1", now), id)
  \/ \E c \in Clients : session_insert(c)
  \/ \E c \in Clients : session_history(c)

SpecRace == Init /\ [][NextRace]_vars

(***************************************************************************)
(* Properties.                                                             *)
(***************************************************************************)
TenKeys == {"summary", "learning_objectives", "topics", "themes", "recommended_grade",
            "subject_category", "difficulty", "educational_value", "keywords",
            "prerequisites"}

HasAnalysisCall == resp.op \in {"create_book", "analyze_book"} /\ "call" \in DOMAIN resp
Unparsable(reply) == reply.raises \/ ~json_loads(reply.text).ok

\* C1: get_ai_analysis never raises; when the reply cannot be parsed as JSON or
\* the call fails it returns an object with exactly the ten keys, whose
\* recommended_grade is the caller's grade_level when given and "5th" otherwise
\* and whose subject_category is the caller's subject when given.
C1_AnalysisFallback ==
  HasAnalysisCall =>
    LET c == resp.call
        v == c.result.value
    IN /\ ~c.result.raised
       /\ Unparsable(c.reply) =>
            /\ v.t = "obj"
            /\ DOMAIN v.o = TenKeys
            /\ v.o["recommended_grade"] =
                 (IF c.grade_level.t = "str" /\ c.grade_level.s # ""
                  THEN c.grade_level ELSE JStr("5th"))
            /\ (c.subject.t = "str" /\ c.subject.s # "") => v.o["subject_category"] = c.subject

C1_Witness ==
  /\ HasAnalysisCall
  /\ resp.status = 200
  /\ ~resp.call.reply.raises
  /\ ~json_loads(resp.call.reply.text).ok
  /\ resp.call.grade_level = JStr("5th")

\* A search or recommendation answer for which the model was called and replied.
Discovered ==
  /\ resp.op \in {"search_books", "get_recommendations"}
  /\ resp.status = 200
  /\ resp.path \in {"parsed", "fallback", "error"}
  /\ ~resp.reply.raises

\* The parsed reply has the shape the handler goes on to use: search iterates
\* it, recommendations call .get on it.
Usable(op, value) == IF op = "search_books" THEN Iterable(value) ELSE HasGet(value)

\* C2 as claimed: in get_semantic_search_results and generate_recommendations
\* every reply that parses as JSON, whatever its type, is answered from the
\* parsed value and never by the fallback loop.
C2_FallbackOnlyOnParseFailure ==
  (Discovered /\ json_loads(resp.reply.text).ok) => resp.path = "parsed"

\* C2, amended: the fallback loop runs exactly when the reply does not parse or
\* parses to a value of a shape the handler cannot use (search: neither array,
\* object nor string; recommendations: not an object); a reply that parses to a
\* usable value is answered from that value: search returns only books whose
\* ids the value lists, and the stored recommendation holds the value's
\* book_ids (or, without that key, the empty list).
C2_FallbackOnUnusableReply ==
  Discovered =>
    LET parsed == json_loads(resp.reply.text)
        usable == parsed.ok /\ Usable(resp.op, parsed.value)
    IN /\ resp.path = (IF usable THEN "parsed" ELSE "fallback")
       /\ (usable /\ resp.op = "search_books") =>
            \A i \in DOMAIN resp.results :
              JStr(resp.results[i].id) \in Range(Items(parsed.value))
       /\ (usable /\ resp.op = "get_recommendations") =>
            recommendations[Len(recommendations)].recommended_books =
              (IF "book_ids" \in DOMAIN parsed.value.o
               THEN parsed.value.o["book_ids"] ELSE JArr(<<>>))

C2_Witness ==
  /\ Discovered
  /\ resp.op = "search_books"
  /\ json_loads(resp.reply.text).ok
  /\ json_loads(resp.reply.text).value = JNull
  /\ resp.path = "fallback"
  /\ Len(resp.results) > 0

Authenticated == resp.status # 401

\* C3: for an authenticated user and any outcome of the model call POST /books
\* succeeds and returns the stored book with an id and an ai_insights object
\* holding at least one of summary, themes, topics, difficulty, insights,
\* keywords.
C3_CreateBookSucceeds ==
  (resp.op = "create_book" /\ Authenticated) =>
    /\ resp.status = 200
    /\ books # <<>>
    /\ BookResponse(books[Len(books)]) = resp.book
    /\ resp.book.ai_insights.t = "obj"
    /\ DOMAIN resp.book.ai_insights.o
         \cap {"summary", "themes", "topics", "difficulty", "insights", "keywords"} # {}

\* C4: for an authenticated user and any outcome of the model call
\* GET /ai/recommendations succeeds with a list of books and a string reasoning
\* and stores a Recommendation record for that user.
C4_RecommendationsSucceed ==
  (resp.op = "get_recommendations" /\ Authenticated) =>
    /\ resp.status = 200
    /\ resp.reasoning.t = "str"
    /\ recommendations # <<>>
    /\ JStr(recommendations[Len(recommendations)].user_id) = resp.token.payload.user_id

\* C5: for an authenticated user and any outcome of the model call a semantic
\* POST /books/search succeeds, every result is a book of the store, and the
\* result is empty when the model call raises.
C5_SemanticSearchSucceeds ==
  (resp.op = "search_books" /\ Authenticated) =>
    /\ resp.status = 200
    /\ \A i \in DOMAIN resp.results :
         \E j \in DOMAIN books : BookResponse(books[j]) = resp.results[i]
    /\ resp.reply.raises => resp.results = <<>>

UsersWithEmail(email) == {i \in DOMAIN users : users[i].email = email}

RegisterAnswer ==
  resp.op = "register" =>
    /\ resp.status \in {200, 400}
    /\ resp.status = 400 =>
         /\ resp.detail = "Email already registered"
         /\ "token" \notin DOMAIN resp
         /\ UsersWithEmail(resp.email) # {}
    /\ resp.status = 200 =>
         /\ UsersWithEmail(resp.email) = {Len(users)}
         /\ ~users[Len(users)].onboarding_completed
         /\ users[Len(users)].subjects = <<>>
         /\ users[Len(users)].reading_history = <<>>
         /\ resp.token.payload.user_id = JStr(users[Len(users)].id)
         /\ resp.token.sig = JWT_SECRET

RegisterStep ==
  (resp'.op = "register" /\ now' = now) =>
    /\ resp'.status = 400 =>
         /\ UsersWithEmail(resp'.email) # {}
         /\ UNCHANGED store
    /\ resp'.status = 200 =>
         /\ UsersWithEmail(resp'.email) = {}
         /\ Len(users') = Len(users) + 1
         /\ SubSeq(users', 1, Len(users)) = users
         /\ UNCHANGED <<books, reading_sessions, recommendations, textbooks>>

\* C6: a register request whose email belongs to a stored user is answered
\* 400 "Email already registered" with no token and leaves the store as it
\* was; one with a fresh email appends exactly one user, with
\* onboarding_completed false and empty subjects and reading_history, changes
\* no other record and returns a token for the new user.
C6_Register == []RegisterAnswer /\ [][RegisterStep]_vars

C6_Witness ==
  /\ resp.op = "register"
  /\ resp.status = 400
  /\ Len(users) = 2

LoginAnswer ==
  resp.op = "login" =>
    LET verified == {i \in UsersWithEmail(resp.email) :
                       users[i].password_hash.of = resp.password}
    IN /\ resp.status \in {200, 401}
       /\ resp.status = 200 =>
            /\ verified # {}
            /\ \E i \in verified : resp.token.payload.user_id = JStr(users[i].id)
       /\ verified = {} => resp.status = 401
       /\ resp.status = 401 =>
            /\ resp.detail = "Invalid email or password"
            /\ "token" \notin DOMAIN resp

LoginStep == (resp'.op = "login" /\ resp'.status = 401) => UNCHANGED store

\* C7: a login is answered 200 with a token only when a stored user has the
\* given email and the password verifies against that user's hash; an unknown
\* email and a wrong password are both answered 401 "Invalid email or
\* password" without a token, and a failed login leaves the store as it was.
C7_Login == []LoginAnswer /\ [][LoginStep]_vars

C7_Witness ==
  /\ resp.op = "login"
  /\ resp.status = 401
  /\ UsersWithEmail(resp.email) # {}
  /\ resp.password = "WrongPassword123"

UsersWithId(user_id) == {i \in DOMAIN users : JStr(users[i].id) = user_id}

\* C8: the token register or login returns for a user carries that user's id
\* under the server's key; presented to GET /profile before its exp it is
\* answered 200 with that user's id and email, and a profile answer never
\* shows a user other than the one the token names.
C8_TokenRoundTrip ==
  /\ (resp.op \in {"register", "login"} /\ resp.status = 200) =>
       /\ resp.token.sig = JWT_SECRET
       /\ resp.token.payload.user_id = JStr(resp.user.id)
       /\ resp.user.email = resp.email
       /\ UsersWithId(JStr(resp.user.id)) # {}
  /\ resp.op = "get_profile" =>
       /\ ( /\ resp.token.sig = JWT_SECRET
            /\ resp.at < resp.token.payload.exp
            /\ UsersWithId(resp.token.payload.user_id) # {} ) =>
            resp.status = 200
       /\ resp.status = 200 =>
            /\ JStr(resp.user.id) = resp.token.payload.user_id
            /\ \A i \in UsersWithId(resp.token.payload.user_id) :
                 resp.user.email = users[i].email

C8_Witness ==
  /\ resp.op = "get_profile"
  /\ resp.status = 200
  /\ resp.user.id = "u2"
  /\ resp.token.payload.exp = JWT_EXPIRATION_TIME
  /\ resp.at > 0

Protected ==
  {"get_profile", "complete_onboarding", "save_textbook_selection",
   "get_subject_textbooks", "create_book", "upload_book", "analyze_book",
   "search_books", "get_recommendations", "create_reading_session",
   "update_reading_session", "get_reading_sessions"}

Expired(token, at) == "exp" \in DOMAIN token.payload /\ token.payload.exp < at

Refused(token, at) ==
  \/ token.sig # JWT_SECRET
  \/ Expired(token, at)
  \/ "user_id" \notin DOMAIN token.payload
  \/ UsersWithId(token.payload.user_id) = {}

RefusedAnswer ==
  (resp.op \in Protected /\ Refused(resp.token, resp.at)) =>
    /\ resp.status = 401
    /\ DOMAIN resp = {"op", "status", "detail", "token", "at"}

RefusedStep == (resp'.op \in Protected /\ resp'.status = 401) => UNCHANGED store

\* C9: every protected route answers 401 to a token that is expired, not
\* signed with the server's key, without a user_id, or for a user_id that is
\* not in the store; the answer carries nothing the handler computes (no model
\* call was made) and the store is left as it was.
C9_Unauthorized == []RefusedAnswer /\ [][RefusedStep]_vars

C9_Witness ==
  /\ resp.op = "update_reading_session"
  /\ resp.status = 401
  /\ resp.detail = "Token expired"
  /\ reading_sessions # <<>>

OnboardingAnswer ==
  /\ (resp.op = "complete_onboarding" /\ resp.status = 200) =>
       \A i \in UsersWithId(resp.token.payload.user_id) :
         /\ users[i].grade = JStr(resp.grade)
         /\ users[i].subjects = resp.subjects
         /\ users[i].onboarding_completed
         /\ resp.user = UserResponse(users[i])
  /\ (resp.op = "get_profile" /\ resp.status = 200) =>
       \A i \in UsersWithId(resp.token.payload.user_id) :
         resp.user = UserResponse(users[i])

OnboardingStep ==
  \A i \in DOMAIN users :
    /\ users[i].onboarding_completed => users'[i].onboarding_completed
    /\ (users'[i].grade # users[i].grade \/ users'[i].subjects # users[i].subjects) =>
         /\ resp'.op = "complete_onboarding"
         /\ resp'.status = 200
         /\ resp'.token.payload.user_id = JStr(users[i].id)

\* C10: after POST /onboarding with grade g and subjects s the user's stored
\* record has grade g, subjects s and onboarding_completed true; GET /profile
\* returns the stored record, whose grade and subjects only that user's next
\* onboarding changes; no step turns onboarding_completed from true to false.
C10_Onboarding == []OnboardingAnswer /\ [][OnboardingStep]_vars

C10_Witness ==
  /\ resp.op = "get_profile"
  /\ resp.status = 200
  /\ resp.user.onboarding_completed
  /\ resp.user.grade = JStr("6th")
  /\ resp.user.reading_history # <<>>

Created == resp.op \in {"create_book", "upload_book"} /\ resp.status = 200

\* C11: the book POST /books or POST /books/upload stores and returns carries
\* the caller's grade_level and subject wherever the caller gave a non-empty
\* one, whatever the analysis recommends; the analysis' recommended_grade and
\* subject_category appear only in a field the caller left empty.
C11_MetadataPreserved ==
  Created =>
    LET stored == books[Len(books)]
        c == resp.call
        ai == c.result.value
    IN /\ resp.book = BookResponse(stored)
       /\ Truthy(c.grade_level) => stored.grade_level = c.grade_level
       /\ Truthy(c.subject) => stored.subject = c.subject
       /\ ~Truthy(c.grade_level) =>
            stored.grade_level =
              (IF "recommended_grade" \in DOMAIN ai.o THEN ai.o["recommended_grade"] ELSE JNull)
       /\ ~Truthy(c.subject) =>
            stored.subject =
              (IF "subject_category" \in DOMAIN ai.o THEN ai.o["subject_category"] ELSE JNull)

C11_Witness ==
  /\ Created
  /\ resp.op = "upload_book"
  /\ resp.call.grade_level = JStr("5th")
  /\ resp.call.result.value.o["recommended_grade"] = JStr("6th")
  /\ resp.book.grade_level = JStr("5th")
  /\ resp.book.subject = JStr("Mathematics")

EducationalKeys ==
  {"learning_objectives", "recommended_grade", "subject_category", "educational_value",
   "prerequisites", "difficulty"}

\* C12: POST /ai/analyze/{book_id} on a stored book is answered 200 with
\* insights, for every outcome of the model call; the stored book then has
\* ai_insights equal to the returned insights and summary equal to their
\* summary, and the insights hold at least four of learning_objectives,
\* recommended_grade, subject_category, educational_value, prerequisites,
\* difficulty.
C12_AnalyzeSucceeds ==
  (resp.op = "analyze_book" /\ Authenticated /\ resp.status # 404) =>
    /\ resp.status = 200
    /\ \E i \in DOMAIN books :
         /\ books[i].id = resp.book_id
         /\ books[i].ai_insights = resp.insights
         /\ books[i].summary = resp.insights.o["summary"]
    /\ Cardinality(DOMAIN resp.insights.o \cap EducationalKeys) >= 4

Listing ==
  (resp.op = "get_books" /\ resp.status = 200) =>
    /\ Len(resp.books) <= resp.request.limit
    /\ \A i \in DOMAIN resp.books :
         /\ \E j \in DOMAIN books : resp.books[i] = BookResponse(books[j])
         /\ Truthy(resp.request.grade) => resp.books[i].grade_level = resp.request.grade
         /\ Truthy(resp.request.subject) => resp.books[i].subject = resp.request.subject

ListingStep == resp'.op = "get_books" => UNCHANGED store

\* C13: GET /books answers with stored books only; with a grade filter each
\* has that grade_level, with a subject filter each has that subject, with both
\* each has both; the list is never longer than limit, and listing leaves the
\* store as it was.
C13_Listing == []Listing /\ [][ListingStep]_vars

C13_Witness ==
  /\ resp.op = "get_books"
  /\ resp.status = 200
  /\ resp.request.grade = JStr("5th")
  /\ resp.request.subject = JStr("Mathematics")
  /\ resp.request.limit = 1
  /\ Len(resp.books) = 1
  /\ Cardinality({j \in DOMAIN books : books[j].subject = JStr("Mathematics")}) = 2

TokenUser(token) == token.payload.user_id

UpdateAnswer ==
  (resp.op = "update_reading_session" /\ resp.status = 200) =>
    /\ resp.session.id = resp.session_id
    /\ JStr(resp.session.user_id) = TokenUser(resp.token)
    /\ resp.session.progress = resp.sent.progress
    /\ resp.session.notes = resp.sent.notes
    /\ resp.session.bookmarks = resp.sent.bookmarks
    /\ resp.session.reading_time = resp.sent.reading_time
    /\ \E i \in DOMAIN reading_sessions : reading_sessions[i] = resp.session

UpdateStep ==
  (resp'.op = "update_reading_session" /\ resp'.status = 200 /\ now' = now) =>
    /\ DOMAIN reading_sessions' = DOMAIN reading_sessions
    /\ \A i \in DOMAIN reading_sessions :
         LET old == reading_sessions[i]
             new == reading_sessions'[i]
         IN /\ new.id = old.id
            /\ new.user_id = old.user_id
            /\ new.book_id = old.book_id
            /\ new.created_at = old.created_at
            /\ IF old.id = resp'.session_id
               THEN /\ new.progress = resp'.sent.progress
                    /\ new.notes = resp'.sent.notes
                    /\ new.bookmarks = resp'.sent.bookmarks
                    /\ new.reading_time = resp'.sent.reading_time
               ELSE new = old
    /\ UNCHANGED <<users, books, recommendations, textbooks>>

\* C14: PUT /reading/session/{id} by the session's owner writes the four
\* parameters as they arrive (a parameter left out arrives as its default and
\* replaces the previous value), returns the session as stored, and leaves
\* its id, user_id, book_id and created_at, and every other session, as they
\* were.
C14_SessionUpdate == []UpdateAnswer /\ [][UpdateStep]_vars

C14_Witness ==
  /\ resp.op = "update_reading_session"
  /\ resp.status = 200
  /\ resp.sent.progress = 0
  /\ resp.sent.notes = ""
  /\ resp.session.notes = ""
  /\ resp.session.created_at < resp.session.updated_at
  /\ Len(reading_sessions) = 2

SessionsOf(user_id, book_id) ==
  {i \in DOMAIN reading_sessions :
     /\ JStr(reading_sessions[i].user_id) = user_id
     /\ reading_sessions[i].book_id = book_id}

OpenAnswer ==
  resp.op = "create_reading_session" =>
    /\ resp.status = 200 =>
         /\ \E i \in DOMAIN reading_sessions : reading_sessions[i] = resp.session
         /\ JStr(resp.session.user_id) = TokenUser(resp.token)
         /\ resp.session.book_id = resp.book_id
         /\ Cardinality(SessionsOf(TokenUser(resp.token), resp.book_id)) = 1
    /\ resp.status = 404 => \A j \in DOMAIN books : books[j].id # resp.book_id

OpenStep ==
  (resp'.op = "create_reading_session" /\ now' = now) =>
    LET before == SessionsOf(TokenUser(resp'.token), resp'.book_id)
    IN /\ resp'.status = 404 => UNCHANGED store
       /\ (resp'.status = 200 /\ before # {}) =>
            /\ UNCHANGED store
            /\ \A i \in before : resp'.session = reading_sessions[i]
       /\ (resp'.status = 200 /\ before = {}) =>
            /\ reading_sessions' = Append(reading_sessions, resp'.session)
            /\ resp'.session.progress = 0
            /\ \A i \in DOMAIN reading_sessions : reading_sessions[i].id # resp'.session.id
            /\ UNCHANGED <<books, recommendations, textbooks>>

C16_OwnSessionsOnly ==
  (resp.op = "get_reading_sessions" /\ resp.status = 200) =>
    \A i \in DOMAIN resp.sessions :
      /\ JStr(resp.sessions[i].user_id) = TokenUser(resp.token)
      /\ \E j \in DOMAIN reading_sessions : reading_sessions[j] = resp.sessions[i]

C16_Witness ==
  /\ resp.op = "get_reading_sessions"
  /\ resp.status = 200
  /\ Len(resp.sessions) = 1
  /\ \E j \in DOMAIN reading_sessions :
       JStr(reading_sessions[j].user_id) # TokenUser(resp.token)

\* The prompt a search or recommendation request sent, whatever became of it.
Listed ==
  IF "listed" \in DOMAIN resp THEN resp.listed
  ELSE IF "call" \in DOMAIN resp /\ "listed" \in DOMAIN resp.call THEN resp.call.listed
  ELSE <<>>

Unread(user_id) ==
  LET history == UNION {Range(users[i].reading_history) :
                          i \in {j \in DOMAIN users : JStr(users[j].id) = user_id}}
  IN SelectSeq(books, LAMBDA b : b.id \notin history)

\* C17: the search prompt lists the first 20 stored books at most and the
\* recommendation prompt the first 30 unread books at most, however many
\* books the store holds; no prompt lists more than 30.
C17_PromptBounded ==
  /\ Len(Listed) <= 30
  /\ (resp.op = "search_books" /\ Authenticated) =>
       /\ Len(Listed) <= 20
       /\ IF "semantic" \in DOMAIN resp /\ ~resp.semantic THEN Listed = <<>>
          ELSE /\ Len(Listed) = (IF Len(books) < 20 THEN Len(books) ELSE 20)
               /\ \A i \in DOMAIN Listed : Listed[i] = books[i].id
  /\ (resp.op = "get_recommendations" /\ Authenticated) =>
       LET unread == Unread(TokenUser(resp.token))
       IN /\ Len(Listed) = (IF Len(unread) < 30 THEN Len(unread) ELSE 30)
          /\ \A i \in DOMAIN Listed : Listed[i] = unread[i].id

C17_Witness ==
  /\ resp.op = "get_recommendations"
  /\ resp.status = 200
  /\ Len(resp.listed) = 30
  /\ Len(Unread(TokenUser(resp.token))) > 30
  /\ Len(books) > Len(Unread(TokenUser(resp.token)))

PdfUploaded ==
  /\ resp.op = "upload_book"
  /\ resp.status = 200
  /\ resp.file.content_type = "application/pdf"

\* C18: extract_pdf_text always returns a text: pdfplumber's when it succeeds
\* with a text that is not blank, and then PyPDF2 is not called; otherwise
\* PyPDF2's when it succeeds, blank or not; otherwise the literal "Could not
\* extract text from PDF".  No PDF upload fails on the extraction.
C18_ExtractOrder ==
  /\ PdfUploaded =>
       LET first == resp.pdf.plumber
           second == resp.pdf.pypdf
           first_good == ~first.raised /\ ~Blank(PlumberText(first.value))
           second_good == ~second.raised /\ ~PyPdfText(second.value).raised
           got == resp.pdf.extract
       IN /\ resp.book.content = got.text
          /\ first_good => got = [text |-> PlumberText(first.value), tried |-> <<"pdfplumber">>]
          /\ ~first_good => got.tried = <<"pdfplumber", "PyPDF2">>
          /\ (~first_good /\ second_good) => got.text = PyPdfText(second.value).value
          /\ (~first_good /\ ~second_good) => got.text = "Could not extract text from PDF"
  /\ ( /\ resp.op = "upload_book"
       /\ resp.status = 500
       /\ resp.file.content_type = "application/pdf" ) =>
       resp.failure \in {"AttributeError", "ValidationError"}

C18_Witness ==
  /\ PdfUploaded
  /\ resp.pdf.plumber = Return(<<JStr(" ")>>)
  /\ resp.pdf.pypdf = Return(<<JStr("")>>)
  /\ resp.book.content = "\n"

Supported(content_type) ==
  content_type = "application/pdf" \/ content_type \in {"text/plain", "text/markdown"}

\* C19: POST /books/upload answers 400, without calling the model, to a file
\* that is neither a PDF nor a text; every accepted file is stored as one book
\* whose file_url is the data URL of the base64 of its bytes and whose
\* file_type is "pdf" or "text" accordingly.  Requests that fail on what the
\* model answered (the failure C3 is about) are left aside.
C19_UploadValidated ==
  ( /\ resp.op = "upload_book"
    /\ Authenticated
    /\ ~(resp.status = 500 /\ resp.failure \in {"AttributeError", "ValidationError"}) ) =>
    IF ~Supported(resp.file.content_type)
    THEN resp.status = 400 /\ "call" \notin DOMAIN resp
    ELSE /\ resp.status = 200
         /\ books # <<>>
         /\ resp.book = BookResponse(books[Len(books)])
         /\ books[Len(books)].file_url =
              JStr(<<"data:", resp.file.content_type, ";base64,", b64encode(resp.file.bytes)>>)
         /\ books[Len(books)].file_type =
              JStr(IF resp.file.content_type = "application/pdf" THEN "pdf" ELSE "text")

\* The first n characters of a text.
FirstChars(n, cs) == [i \in 1..(IF Len(cs) < n THEN Len(cs) ELSE n) |-> cs[i]]

\* The lower-cased query occurs in the lower-cased characters cs.
QueryIn(query, cs) ==
  LET q == LowerSeq(Chars(query))
      hay == LowerSeq(cs)
  IN \E k \in 0..(Len(hay) - Len(q)) : \A j \in 1..Len(q) : hay[k + j] = q[j]

\* C20: the result of the search fallback holds at most 10 books, none twice,
\* each a stored book in whose title, author or first 1000 characters of
\* content the lower-cased query occurs.
C20_FallbackMatches ==
  (resp.op = "search_books" /\ resp.status = 200 /\ resp.path = "fallback") =>
    /\ Len(resp.results) <= 10
    /\ \A i, j \in DOMAIN resp.results : resp.results[i].id = resp.results[j].id => i = j
    /\ \A i \in DOMAIN resp.results :
         LET r == resp.results[i]
         IN /\ \E k \in DOMAIN books : BookResponse(books[k]) = r
            /\ \/ QueryIn(resp.query, Chars(r.title))
               \/ QueryIn(resp.query, Chars(r.author))
               \/ QueryIn(resp.query, FirstChars(1000, Chars(r.content)))

C20_Witness ==
  /\ resp.op = "search_books"
  /\ resp.status = 200
  /\ resp.path = "fallback"
  /\ Len(resp.results) = 10
  /\ Cardinality({k \in DOMAIN books : books[k].title = "Algebra"}) > 10
  /\ \E k \in DOMAIN books : books[k].content = "<1000 spaces>algebra"
  /\ \E u \in DOMAIN users : users[u].grade = JStr("5th")

SeededState ==
  Started =>
    /\ Len(textbooks) = 8
    /\ \A i, j \in DOMAIN textbooks : textbooks[i].id = textbooks[j].id => i = j
    /\ \A i \in DOMAIN textbooks : textbooks[i].title = sample_textbooks[i].title

SeedingStep ==
  /\ (textbooks = <<>> /\ resp'.op = "startup_event") => Len(textbooks') = 8
  /\ textbooks # <<>> => textbooks' = textbooks

\* C21: a start of the server on an empty textbook collection inserts the 8
\* samples, a start on a collection that is not empty changes nothing, and no
\* request changes the collection; so after any number of starts in sequence
\* there are exactly 8 textbooks, the samples, with pairwise distinct ids.
C21_SeededOnce == []SeededState /\ [][SeedingStep]_vars

C21_Witness ==
  /\ resp.op = "startup_event"
  /\ resp.existing_count = 8
  /\ Len(textbooks) = 8
  /\ users # <<>>

\* C22: whatever the interleaving of register requests, each a lookup by
\* email followed after a suspension by an insert, no two stored users have
\* the same email.
C22_EmailUnique ==
  \A i, j \in DOMAIN users : users[i].email = users[j].email => i = j

\* C23: whatever the interleaving of POST /reading/session requests, each a
\* lookup followed after a suspension by an insert, there is at most one
\* reading session for each user and book.
C23_SessionUnique ==
  \A i, j \in DOMAIN reading_sessions :
    ( /\ reading_sessions[i].user_id = reading_sessions[j].user_id
      /\ reading_sessions[i].book_id = reading_sessions[j].book_id ) => i = j

\* No request is suspended at an await.
Quiet == \A c \in Clients : inflight[c] = Idle

SessionBooks(user_id) ==
  {reading_sessions[i].book_id :
     i \in {j \in DOMAIN reading_sessions : reading_sessions[j].user_id = user_id}}

HistoryState ==
  /\ \A i \in DOMAIN reading_sessions :
       \E k \in DOMAIN books : books[k].id = reading_sessions[i].book_id
  /\ Quiet =>
       \A u \in DOMAIN users :
         LET history == users[u].reading_history
         IN /\ \A i, j \in DOMAIN history : history[i] = history[j] => i = j
            /\ Range(history) = SessionBooks(users[u].id)

HistoryStep ==
  \A u \in DOMAIN users :
    /\ u \in DOMAIN users'
    /\ users'[u].id = users[u].id
    /\ Len(users[u].reading_history) <= Len(users'[u].reading_history)
    /\ \A i \in DOMAIN users[u].reading_history :
         users'[u].reading_history[i] = users[u].reading_history[i]

\* C24: whenever no request is in progress, each user's reading_history has
\* no duplicate and holds exactly the book_ids of that user's reading
\* sessions; every session's book_id is that of a stored book; no step
\* removes or moves an entry of a reading_history.
C24_HistoryMatchesSessions == []HistoryState /\ [][HistoryStep]_vars

C24_Witness ==
  /\ Quiet
  /\ resp.op = "create_reading_session"
  /\ resp.status = 200
  /\ resp.created
  /\ \E u \in DOMAIN users :
       /\ users[u].reading_history = <<"b2", "b1">>
       /\ users[u].onboarding_completed
       /\ Cardinality({i \in DOMAIN reading_sessions :
                         reading_sessions[i].user_id = users[u].id}) = 3

OwnedBy(session_id, user_id) ==
  {i \in DOMAIN reading_sessions :
     /\ reading_sessions[i].id = session_id
     /\ JStr(reading_sessions[i].user_id) = user_id}

ForeignUpdateStep ==
  (resp'.op = "update_reading_session" /\ resp'.status # 401 /\ now' = now) =>
    /\ OwnedBy(resp'.session_id, TokenUser(resp'.token)) = {} => resp'.status = 404
    /\ resp'.status = 404 =>
         /\ resp'.detail = "Reading session not found"
         /\ UNCHANGED store

OwnerChangesStep ==
  \A i \in DOMAIN reading_sessions :
    /\ i \in DOMAIN reading_sessions'
    /\ reading_sessions'[i] # reading_sessions[i] =>
         /\ resp'.op = "update_reading_session"
         /\ resp'.status = 200
         /\ resp'.session_id = reading_sessions[i].id
         /\ TokenUser(resp'.token) = JStr(reading_sessions[i].user_id)

\* C25: PUT /reading/session/{id} by a user who does not own the session, or
\* with an id no session has, is answered 404 and leaves every stored
\* session (and the rest of the store) as it was; a stored session changes
\* only in a 200 update of that session by its owner.
C25_OwnerOnlyUpdate == [][ForeignUpdateStep /\ OwnerChangesStep]_vars

C25_Witness ==
  /\ resp.op = "update_reading_session"
  /\ resp.status = 404
  /\ resp.session_id = "s1"
  /\ OwnedBy("s1", JStr("u1")) # {}
  /\ TokenUser(resp.token) = JStr("u2")
  /\ \E i \in DOMAIN reading_sessions : reading_sessions[i].user_id = "u2"

\* C26: the ids GET /ai/recommendations stores and answers from are ids of
\* stored books that are not in the user's reading_history, at most 5 of
\* them, for every outcome of the model call; a user with no unread book gets
\* the empty list and the model is not called.
C26_RecommendedAreCandidates ==
  (resp.op = "get_recommendations" /\ resp.status = 200) =>
    LET stored == recommendations[Len(recommendations)].recommended_books.a
        unread == Unread(TokenUser(resp.token))
    IN /\ Len(stored) <= 5
       /\ \A i \in DOMAIN stored :
            \E k \in DOMAIN unread : JStr(unread[k].id) = stored[i]
       /\ unread = <<>> => (stored = <<>> /\ resp.path = "none")

\* The last answer is that of the creation of a book whose creator gave both
\* a grade_level and a subject.
CreatedWithBoth ==
  /\ Created
  /\ Truthy(resp.call.grade_level)
  /\ Truthy(resp.call.subject)

MetadataStableStep ==
  CreatedWithBoth =>
    \A i \in DOMAIN books :
      books[i].id = resp.book.id =>
        /\ books'[i].grade_level = resp.call.grade_level
        /\ books'[i].subject = resp.call.subject

\* C27: no operation that follows the creation of a book with both
\* grade_level and subject given, POST /ai/analyze/{book_id} with any outcome
\* of the model call in particular, changes the book's stored grade_level or
\* subject.
C27_MetadataStable == [][MetadataStableStep]_vars

\* C28: whenever no request is in progress, the summary of each stored book
\* is the summary of its ai_insights ("" without one) and its keywords are
\* the keywords of its ai_insights ([] without them): after creation, after
\* upload and after every re-analysis.
C28_SummaryKeywordsAgree ==
  Quiet =>
    \A i \in DOMAIN books :
      LET ai == books[i].ai_insights
      IN /\ ai.t = "obj"
         /\ books[i].summary =
              (IF "summary" \in DOMAIN ai.o THEN ai.o["summary"] ELSE JStr(""))
         /\ books[i].keywords =
              (IF "keywords" \in DOMAIN ai.o THEN ai.o["keywords"] ELSE JArr(<<>>))

\* C29: a semantic search answers with at most 10 books and never with the
\* same book twice, for every outcome of the model call: when the results are
\* fetched from the ids the model returned and when the fallback runs.
C29_SearchBounded ==
  (resp.op = "search_books" /\ resp.status = 200 /\ resp.semantic) =>
    /\ Len(resp.results) <= 10
    /\ \A i, j \in DOMAIN resp.results :
         resp.results[i].id = resp.results[j].id => i = j

\* A book agrees with a user: the grades are equal or one of them is missing,
\* and the book's subject is one of the user's or one side has none.
Agrees(user, b) ==
  /\ \/ user.grade.t = "null"
     \/ user.grade = JStr("")
     \/ b.grade_level.t = "null"
     \/ b.grade_level = JStr("")
     \/ b.grade_level = user.grade
  /\ \/ user.subjects = <<>>
     \/ b.subject.t = "null"
     \/ b.subject = JStr("")
     \/ \E i \in DOMAIN user.subjects : b.subject = JStr(user.subjects[i])

\* The query of a search occurs in the book, where the fallback looks.
Matches(query, b) ==
  \/ QueryIn(query, Chars(b.title))
  \/ QueryIn(query, Chars(b.author))
  \/ QueryIn(query, FirstChars(1000, Chars(b.content)))

FallbackOrderStep ==
  (resp'.op = "search_books" /\ resp'.status = 200 /\ resp'.path = "fallback") =>
    \A u \in UsersWithId(TokenUser(resp'.token)) :
      LET results == resp'.results
          matching == {k \in DOMAIN books : Matches(resp'.query, books[k])}
          agreeing == {k \in matching : Agrees(users[u], books[k])}
      IN /\ Len(results) = (IF Cardinality(matching) < 10 THEN Cardinality(matching) ELSE 10)
         /\ \A i, j \in DOMAIN results :
              (i < j /\ Agrees(users[u], results[j])) => Agrees(users[u], results[i])
         /\ (\E i \in DOMAIN results : ~Agrees(users[u], results[i])) =>
              /\ Cardinality(agreeing) < 10
              /\ \A k \in agreeing : \E i \in DOMAIN results : results[i].id = books[k].id

\* C30: in the answer of the search fallback every matching book that agrees
\* with the user's grade and subjects comes before every matching book that
\* does not, and a book that does not agree is among the 10 returned only
\* when fewer than 10 agreeing books matched, all of which are then returned.
C30_AgreeingFirst == [][FallbackOrderStep]_vars

C30_Witness ==
  /\ resp.op = "search_books"
  /\ resp.status = 200
  /\ resp.path = "fallback"
  /\ Len(resp.results) = 10
  /\ \E u \in DOMAIN users :
       /\ users[u].grade = JStr("5th")
       /\ Agrees(users[u], resp.results[1])
       /\ ~Agrees(users[u], resp.results[10])
       /\ resp.results[1].id # "b1"
====
